---------------------------- MODULE Spec2Model ----------------------------
(***************************************************************************)
(* Model of the two ring buffers of fHUD:                                  *)
(*   - CircularAudioBuffer (src/python/circular_audio_buffer.py), the      *)
(*     single-process sample ring;                                         *)
(*   - the shared-memory word ring written by main_server._write_word and  *)
(*     polled by ASRWebSocketBridge.read_shared_memory_loop.               *)
(***************************************************************************)
EXTENDS Integers, Sequences, FiniteSets, TLC

(***************************************************************************)
(* Bounds of the model.                                                    *)
(***************************************************************************)
\* CircularAudioBuffer(size): the capacity handed to the constructor.
size == 4
\* Total number of samples the producer writes in one behaviour.
MaxSamples == 7

\* The longest batch one write() call is given (longer than the ring).
MaxBatch == size + 2
\* The largest n / chunk_size / overlap argument of a read call.
MaxArg == size + 1

Min(a, b) == IF a <= b THEN a ELSE b

(***************************************************************************)
(* Python / numpy helpers, computed the way the interpreter computes them. *)
(***************************************************************************)
\* a[lo:hi] of a numpy array a of `size` elements, for lo, hi >= 0: the stop
\* index is clamped to the array's length, an empty range gives an empty array.
PySlice(a, lo, hi) ==
    LET stop == Min(hi, size)
    IN  IF stop <= lo THEN << >>
        ELSE [i \in 1..(stop - lo) |-> a[lo + i - 1]]

\* a[lo:hi] = data, for a slice exactly as long as data.
PySliceAssign(a, lo, hi, data) ==
    [i \in 0..(size - 1) |-> IF lo <= i /\ i < hi THEN data[i - lo + 1] ELSE a[i]]

\* data[lo:hi] of a Python sequence (0-based, stop clamped).
SeqSlice(data, lo, hi) ==
    LET stop == Min(hi, Len(data))
    IN  IF stop <= lo THEN << >>
        ELSE [i \in 1..(stop - lo) |-> data[lo + i]]

\* data[-n:], the last n elements (all of them when there are fewer).
LastN(data, n) == SeqSlice(data, IF Len(data) > n THEN Len(data) - n ELSE 0, Len(data))

\* data[:n]
FirstN(data, n) == SeqSlice(data, 0, n)

VARIABLES
    buffer,      \* CircularAudioBuffer.buffer: [0..size-1 -> sample]
    read_ptr,    \* CircularAudioBuffer.read_ptr
    write_ptr,   \* CircularAudioBuffer.write_ptr
    length,      \* CircularAudioBuffer.length
    nsamples,    \* number of samples produced so far; sample k has value k
    unread,      \* history: the samples written and not yet consumed or displaced
    retained,    \* history: the last overlapping read and whether its overlap survives
    call,        \* history: the last call, its arguments, result and pre-state
    misuses,     \* history: number of calls made with overlap >= chunk_size
    mem,         \* the shared memory segment tc_rb: [0..len-1 -> byte], or NoSegment
    lock,        \* holder of the flock on tc_rb.lock, or NoHolder
    wpc,         \* position of each main_server process: start-up, idle, or inside _write_word
    wloc,        \* locals of each writer's _write_word call; pre: the segment when it took the lock
    rpc,         \* position of the bridge inside read_shared_memory_loop
    rloc,        \* locals of the bridge's current poll: head, tail, data
    last_tail,   \* ASRWebSocketBridge.last_tail
    nwrites,     \* number of _write_word calls started
    frames,      \* history: the frames stored, in the order their head was persisted
    polls,       \* history: the bytes each poll copied out of the ring
    events,      \* history: the messages the bridge built for its clients
    log,         \* history: the lines the processes logged, in order
    lockerrors,  \* history: number of flock calls that failed
    buffer_lock, \* holder of the streamer's buffer_lock, or NoHolder
    cpc,         \* position of the audio thread inside audio_callback
    ppc,         \* position of the processing loop inside one iteration
    queue,       \* processing_queue.qsize()
    buffer_overflow_count,  \* OptimizedParakeetStreamer.buffer_overflow_count
    server,      \* the class that owns the buffer: the streamer or SimpleASRServer
    clients,     \* ASRWebSocketBridge.clients
    bcast,       \* the bridge's broadcast of one poll: messages, word index, set iterator
    sent,        \* history: the messages the bridge sent, with their byte range
    joins,       \* number of client connects and disconnects so far
    mm,          \* SharedMemoryAudioBuffer.mm: header write_pos, read_pos and the samples
    wa,          \* the audio thread inside write_audio: position and locals
    ra,          \* the event loop inside read_audio: position and locals
    totals,      \* history: samples passed to write_audio, samples returned by read_audio
    is_streaming,  \* OptimizedParakeetStreamer.is_streaming of the one global streamer
    session,     \* position of each client's handle_client / start_streaming
    connected,   \* whether each client's connection is open
    simple       \* SimpleASRServer: is_streaming, clients, handlers, loop tasks, streams

bufvars == << buffer, read_ptr, write_ptr, length, nsamples, unread, retained, call, misuses >>

ringvars == << mem, lock, wpc, wloc, rpc, rloc, last_tail, nwrites, frames, polls, events,
              log, lockerrors >>

streamvars == << buffer_lock, cpc, ppc, queue, buffer_overflow_count, server >>

clientvars == << clients, bcast, sent, joins >>
mmapvars == << mm, wa, ra, totals >>
sessionvars == << is_streaming, session, connected >>

\* The state of the servers around the ring and the sample buffer.
servervars == << clientvars, mmapvars, sessionvars, simple >>

\* What the steps of the shared word ring leave alone.
othervars == << bufvars, streamvars, servervars, log, lockerrors >>

vars == << buffer, read_ptr, write_ptr, length, nsamples, unread, retained, call, misuses,
           mem, lock, wpc, wloc, rpc, rloc, last_tail, nwrites, frames, polls, events,
           log, lockerrors, buffer_lock, cpc, ppc, queue, buffer_overflow_count, server,
           clients, bcast, sent, joins, mm, wa, ra, totals, is_streaming, session,
           connected, simple >>

(***************************************************************************)
(* CircularAudioBuffer                                                     *)
(***************************************************************************)
PreState ==
    [buffer |-> buffer, read_ptr |-> read_ptr, write_ptr |-> write_ptr,
     length |-> length, unread |-> unread, retained |-> retained]

NoRetained ==
    [valid |-> FALSE, intact |-> FALSE, chunk_size |-> 0, overlap |-> 0, data |-> << >>]

\* __init__
InitBuf ==
    /\ buffer = [i \in 0..(size - 1) |-> 0]
    /\ read_ptr = 0
    /\ write_ptr = 0
    /\ length = 0
    /\ nsamples = 0
    /\ unread = << >>
    /\ retained = NoRetained
    /\ misuses = 0
    /\ call = [op |-> "init", n |-> 0, chunk_size |-> 0, overlap |-> 0,
               ret |-> << >>, pre |-> PreState]

\* write, lines 17-20: a batch longer than the ring keeps its last `size` samples.
TruncateBatch(data) == IF Len(data) > size THEN LastN(data, size) ELSE data

\* write, lines 21-27: the copy into the ring, split at the end of the array.
WriteCopy(buf, wp, data) ==
    LET n       == Len(data)
        end_ptr == wp + n
    IN  IF end_ptr <= size
        THEN PySliceAssign(buf, wp, end_ptr, data)
        ELSE LET split == size - wp
                 b1    == PySliceAssign(buf, wp, size, SeqSlice(data, 0, split))
             IN  PySliceAssign(b1, 0, n - split, SeqSlice(data, split, n))

\* write, line 29
NewLengthUnsaturated(len, n) == len + n
NewLength(len, n) == Min(len + n, size)

\* write, lines 30-32: the read pointer after a write.
NewReadPtr(rp, wp, len) == IF len = size /\ rp = wp THEN wp ELSE rp

\* The ring positions a write of data at wp stores to.
WrittenPositions(wp, n) == {(wp + i) % size : i \in 0..(n - 1)}

\* The ring positions holding the overlap kept by the last overlapping read.
RetainedPositions == {(read_ptr + j) % size : j \in 0..(retained.overlap - 1)}

Write(samples) ==
    /\ call' = [op |-> "write", n |-> Len(samples), chunk_size |-> 0, overlap |-> 0,
                ret |-> << >>, pre |-> PreState]
    /\ nsamples' = nsamples + Len(samples)
    /\ IF Len(samples) = 0
       THEN UNCHANGED << buffer, read_ptr, write_ptr, length, unread, retained >>
       ELSE LET data == TruncateBatch(samples)
                n    == Len(data)
                wp   == (write_ptr + n) % size
                len  == NewLength(length, n)
            IN  /\ buffer' = WriteCopy(buffer, write_ptr, data)
                /\ write_ptr' = wp
                /\ length' = len
                /\ read_ptr' = NewReadPtr(read_ptr, wp, len)
                /\ unread' = LastN(unread \o samples, size)
                /\ retained' =
                       [retained EXCEPT
                          !.valid  = @ /\ length + n <= size,
                          !.intact = @ /\ WrittenPositions(write_ptr, n)
                                            \cap RetainedPositions = {}]

\* read, lines 38-46: the copy out of the ring.
ReadCopy(buf, rp, n) ==
    LET end_ptr == rp + n
    IN  IF end_ptr <= size
        THEN PySlice(buf, rp, end_ptr)
        ELSE LET split == size - rp
             IN  PySlice(buf, rp, size) \o PySlice(buf, 0, n - split)

Read(n) ==
    /\ UNCHANGED << buffer, write_ptr, nsamples >>
    /\ IF n <= 0 \/ length = 0
       THEN /\ call' = [op |-> "read", n |-> n, chunk_size |-> 0, overlap |-> 0,
                        ret |-> << >>, pre |-> PreState]
            /\ UNCHANGED << read_ptr, length, unread, retained >>
       ELSE LET k == Min(n, length)
            IN  /\ call' = [op |-> "read", n |-> n, chunk_size |-> 0, overlap |-> 0,
                            ret |-> ReadCopy(buffer, read_ptr, k), pre |-> PreState]
                /\ read_ptr' = (read_ptr + k) % size
                /\ length' = length - k
                /\ unread' = SeqSlice(unread, Min(n, Len(unread)), Len(unread))
                /\ retained' = NoRetained

\* read_with_overlap, line 67
AdvanceWholeChunk(chunk_size, overlap) == chunk_size
Advance(chunk_size, overlap) == chunk_size - overlap

ReadWithOverlap(chunk_size, overlap) ==
    /\ UNCHANGED << buffer, write_ptr, nsamples >>
    /\ IF chunk_size <= 0 \/ length < chunk_size
       THEN /\ call' = [op |-> "read_with_overlap", n |-> 0, chunk_size |-> chunk_size,
                        overlap |-> overlap, ret |-> << >>, pre |-> PreState]
            /\ UNCHANGED << read_ptr, length, unread, retained >>
       ELSE LET data    == ReadCopy(buffer, read_ptr, chunk_size)
                advance == Advance(chunk_size, overlap)
            IN  /\ call' = [op |-> "read_with_overlap", n |-> 0, chunk_size |-> chunk_size,
                            overlap |-> overlap, ret |-> data, pre |-> PreState]
                /\ read_ptr' = (read_ptr + advance) % size
                /\ length' = length - advance
                /\ unread' = IF overlap < chunk_size /\ Len(unread) >= chunk_size
                             THEN SeqSlice(unread, chunk_size - overlap, Len(unread))
                             ELSE unread
                /\ retained' = [valid |-> overlap > 0 /\ overlap < chunk_size,
                                intact |-> overlap > 0 /\ overlap < chunk_size,
                                chunk_size |-> chunk_size, overlap |-> overlap,
                                data |-> data]

\* The producer's call: the next batch of fresh samples.
BufWrite ==
    \E n \in 0..MaxBatch :
        /\ nsamples + n <= MaxSamples
        /\ UNCHANGED << misuses, ringvars, servervars, streamvars >>
        /\ Write([i \in 1..n |-> nsamples + i])

BufRead == \E n \in (-1)..MaxArg : Read(n) /\ UNCHANGED << misuses, ringvars, servervars, streamvars >>

\* Calls that keep the contract 0 <= overlap < chunk_size.
BufReadWithOverlap ==
    \E chunk_size \in 1..MaxArg : \E overlap \in 0..(chunk_size - 1) :
        ReadWithOverlap(chunk_size, overlap) /\ UNCHANGED << misuses, ringvars, servervars, streamvars >>

(***************************************************************************)
(* The shared-memory word ring: main_server._write_word (writer) and       *)
(* ASRWebSocketBridge.read_shared_memory_loop (reader).                    *)
(* Timestamps and confidences are written in thousandths: 2000 is 2.0.     *)
(***************************************************************************)
\* Size in bytes of the shared segment of the model (the program's is 64 * 1024):
\* a payload of 64 bytes behind the 9-byte header.
SHM_SIZE == 73
\* Number of _write_word calls in one behaviour.
MaxWrites == 3

VERSION_BYTE == 1
DATA_OFFSET == 9
CAPACITY == SHM_SIZE - DATA_OFFSET

\* The bridge's own idea of the layout: capacity = len(buf) - 8, payload at 8.
BRIDGE_OFFSET == 8

\* len(buf): the size of the segment a process is attached to (0: no segment).
SegLen(m) == Cardinality(DOMAIN m)
\* No segment named tc_rb exists.
NoSegment == [i \in {} |-> 0]
\* shared_memory.SharedMemory(create=True, size=n): a zero-filled segment.
NewSegment(n) == [i \in 0..(n - 1) |-> 0]

BridgeCapacity == SegLen(mem) - BRIDGE_OFFSET

\* The processes that run main_server.py: the server, and a second instance of it.
MainServer == "main_server"
Writers == {MainServer, "main_server_2"}
NoHolder == "none"

\* The bridge process.
Bridge == "bridge"

\* The two classes that own a CircularAudioBuffer and a buffer_lock.
Streamer == "OptimizedParakeetStreamer"
SimpleServer == "SimpleASRServer"
Servers == { Streamer, SimpleServer }
\* The largest value of an "H" field of struct.pack.
U16Max == 65535

\* The words of the model, as code points: "hi", "né", "crystallize".
WordHi == << 104, 105 >>
WordNe == << 110, 233 >>
WordCrystallize == << 99, 114, 121, 115, 116, 97, 108, 108, 105, 122, 101 >>
Words == { WordHi, WordNe, WordCrystallize }
\* time.time() at the n-th call: the clock only moves forward.
Now(n) == 2000 + 1000 * n
Confidences == { 500, 1000 }

RECURSIVE Flatten(_)
\* The concatenation of a sequence of sequences.
Flatten(ss) == IF ss = << >> THEN << >> ELSE Head(ss) \o Flatten(Tail(ss))

\* str.encode("utf-8") of one code point.
Utf8EncodeChar(cp) ==
    IF cp < 128 THEN << cp >>
    ELSE IF cp < 2048 THEN << 192 + (cp \div 64), 128 + (cp % 64) >>
    ELSE IF cp < 65536
         THEN << 224 + (cp \div 4096), 128 + ((cp \div 64) % 64), 128 + (cp % 64) >>
    ELSE << 240 + (cp \div 262144), 128 + ((cp \div 4096) % 64),
            128 + ((cp \div 64) % 64), 128 + (cp % 64) >>

\* str.encode("utf-8")
Utf8Encode(word) == Flatten([i \in 1..Len(word) |-> Utf8EncodeChar(word[i])])

IsCont(b) == 128 <= b /\ b <= 191

\* Length of the UTF-8 sequence a lead byte announces (0: no valid lead byte).
Utf8Len(b0) ==
    IF b0 < 128 THEN 1
    ELSE IF 194 <= b0 /\ b0 <= 223 THEN 2
    ELSE IF 224 <= b0 /\ b0 <= 239 THEN 3
    ELSE IF 240 <= b0 /\ b0 <= 244 THEN 4
    ELSE 0

\* The sequence starting at position i is well formed (strict decoding: no
\* overlong forms, no surrogates, nothing above U+10FFFF) and is not followed by
\* a stray continuation byte.
Utf8CharOk(bytes, i) ==
    LET b0 == bytes[i]
        n  == Utf8Len(b0)
    IN  /\ n > 0
        /\ i + n - 1 <= Len(bytes)
        /\ \A k \in 1..(n - 1) : IsCont(bytes[i + k])
        /\ (b0 = 224 => bytes[i + 1] >= 160)
        /\ (b0 = 237 => bytes[i + 1] <= 159)
        /\ (b0 = 240 => bytes[i + 1] >= 144)
        /\ (b0 = 244 => bytes[i + 1] <= 143)
        /\ (i + n <= Len(bytes) => ~IsCont(bytes[i + n]))

\* The code point of the well-formed sequence starting at position i.
Utf8CodePoint(bytes, i) ==
    LET b0 == bytes[i]
        n  == Utf8Len(b0)
    IN  IF n = 1 THEN b0
        ELSE IF n = 2 THEN (b0 - 192) * 64 + (bytes[i + 1] - 128)
        ELSE IF n = 3 THEN (b0 - 224) * 4096 + (bytes[i + 1] - 128) * 64
                           + (bytes[i + 2] - 128)
        ELSE (b0 - 240) * 262144 + (bytes[i + 1] - 128) * 4096
             + (bytes[i + 2] - 128) * 64 + (bytes[i + 3] - 128)

RECURSIVE Utf8Text(_, _, _)
\* The code points of the sequences that start at positions lo..hi, in order
\* (the range is halved, so that the nesting stays shallow).
Utf8Text(bytes, lo, hi) ==
    IF lo > hi THEN << >>
    ELSE IF lo = hi
         THEN IF IsCont(bytes[lo]) THEN << >> ELSE << Utf8CodePoint(bytes, lo) >>
    ELSE LET mid == (lo + hi) \div 2
         IN  Utf8Text(bytes, lo, mid) \o Utf8Text(bytes, mid + 1, hi)

\* bytes.decode("utf-8"), strict: [ok, text]. ok is FALSE where Python raises
\* UnicodeDecodeError. UTF-8 is self-synchronising: the sequences start at the
\* bytes that are no continuation bytes.
Utf8Decode(bytes) ==
    LET ok == /\ (bytes # << >> => ~IsCont(bytes[1]))
              /\ \A i \in 1..Len(bytes) : IsCont(bytes[i]) \/ Utf8CharOk(bytes, i)
    IN  [ok |-> ok, text |-> IF ok THEN Utf8Text(bytes, 1, Len(bytes)) ELSE << >>]

\* str.isspace() of one code point.
IsSpace(cp) ==
    \/ cp \in 9..13 \/ cp \in 28..32 \/ cp \in {133, 160, 5760}
    \/ cp \in 8192..8202 \/ cp \in {8232, 8233, 8239, 8287, 12288}

\* The last position of the run of non-whitespace that starts at position s.
WordEnd(text, s) ==
    CHOOSE j \in s..Len(text) :
        /\ j = Len(text) \/ IsSpace(text[j + 1])
        /\ \A k \in s..j : ~IsSpace(text[k])

RECURSIVE SplitRange(_, _, _)
\* The maximal runs of non-whitespace that start at positions lo..hi, in order
\* (the range is halved, so that the nesting stays shallow).
SplitRange(text, lo, hi) ==
    IF lo > hi THEN << >>
    ELSE IF lo = hi
         THEN IF ~IsSpace(text[lo]) /\ (lo = 1 \/ IsSpace(text[lo - 1]))
              THEN << SeqSlice(text, lo - 1, WordEnd(text, lo)) >>
              ELSE << >>
    ELSE LET mid == (lo + hi) \div 2
         IN  SplitRange(text, lo, mid) \o SplitRange(text, mid + 1, hi)

\* str.split()
Split(text) == SplitRange(text, 1, Len(text))

\* struct.pack("<H", x)
PackU16(x) == << x % 256, (x \div 256) % 256 >>
\* struct.pack("I", x) on a little-endian machine
PackU32(x) == << x % 256, (x \div 256) % 256, (x \div 65536) % 256, (x \div 16777216) % 256 >>
\* struct.pack("<d", t) of the timestamps of the model
PackF64(t) ==
    CASE t = 2000 -> << 0, 0, 0, 0, 0, 0, 0, 64 >>
      [] t = 3000 -> << 0, 0, 0, 0, 0, 0, 8, 64 >>
      [] t = 4000 -> << 0, 0, 0, 0, 0, 0, 16, 64 >>
      [] t = 5000 -> << 0, 0, 0, 0, 0, 0, 20, 64 >>
      [] t = 6000 -> << 0, 0, 0, 0, 0, 0, 24, 64 >>
      [] t = 7000 -> << 0, 0, 0, 0, 0, 0, 28, 64 >>
      [] t = 8000 -> << 0, 0, 0, 0, 0, 0, 32, 64 >>
\* struct.pack("<f", c) of the confidences of the model
PackF32(c) ==
    CASE c = 250 -> << 0, 0, 128, 62 >>
      [] c = 500 -> << 0, 0, 0, 63 >>
      [] c = 1000 -> << 0, 0, 128, 63 >>

\* struct.unpack_from("I", m, off)[0]
UnpackU32(m, off) ==
    m[off] + 256 * m[off + 1] + 65536 * m[off + 2] + 16777216 * m[off + 3]

\* struct.pack_into("I", m, off, x)
PackIntoU32(m, off, x) ==
    [i \in DOMAIN m |->
        IF off <= i /\ i < off + 4 THEN PackU32(x)[i - off + 1] ELSE m[i]]

\* bytes(m[lo:hi]) of the segment: the stop index is clamped to its length.
MemSlice(m, lo, hi) ==
    LET stop == Min(hi, SegLen(m))
    IN  IF stop <= lo THEN << >>
        ELSE [i \in 1..(stop - lo) |-> m[lo + i - 1]]

\* m[lo:lo+len(data)] = data
MemAssign(m, lo, data) ==
    [i \in DOMAIN m |->
        IF lo <= i /\ i < lo + Len(data) THEN data[i - lo + 1] ELSE m[i]]

\* m[lo:hi] = data succeeds: the slice, clamped to the segment, is as long as data
\* (Python raises ValueError otherwise).
MemAssignFits(m, lo, hi, data) ==
    LET n     == SegLen(m)
        start == Min(lo, n)
        stop  == Min(hi, n)
    IN  (IF stop > start THEN stop - start ELSE 0) = Len(data)

Zeros(n) == [i \in 1..n |-> 0]

\* _write_word, lines 283-284
EntryLen(word_len) == 2 + 8 + 4 + 2 + word_len
\* (entry_len + 8) & ~7: padding that is never empty.
PaddedPastBoundary(entry_len) == ((entry_len \div 8) + 1) * 8

\* (entry_len + 7) & ~7
Padded(entry_len) == ((entry_len + 7) \div 8) * 8

\* _write_word, lines 300-301: the zero-padded entry.
Entry(word, timestamp, confidence) ==
    LET data      == Utf8Encode(word)
        word_len  == Len(data)
        entry_len == EntryLen(word_len)
        entry     == PackU16(entry_len) \o PackF64(timestamp) \o PackF32(confidence)
                       \o PackU16(word_len) \o data
    IN  entry \o Zeros(Padded(entry_len) - Len(entry))

NoWriterLocals ==
    [word |-> << >>, timestamp |-> 0, confidence |-> 0, padded |-> 0,
     head |-> 0, tail |-> 0, evicted |-> 0, entry |-> << >>, outcome |-> "none",
     pre |-> << >>]

NoReaderLocals == [head |-> 0, tail |-> 0, available |-> 0, data |-> << >>]

\* The state once main_server has created the segment and the bridge has attached
\* to it: shared_memory.SharedMemory(create=True) gives a zero-filled segment.
InitRing ==
    /\ mem = NewSegment(SHM_SIZE)
    /\ lock = NoHolder
    /\ wpc = [w \in Writers |-> "idle"]
    /\ wloc = [w \in Writers |-> NoWriterLocals]
    /\ rpc = "sleep"
    /\ rloc = NoReaderLocals
    /\ last_tail = 0
    /\ nwrites = 0
    /\ frames = << >>
    /\ polls = << >>
    /\ events = << >>
    /\ log = << >>
    /\ lockerrors = 0

\* OptimizedParakeetStreamer.__init__: nothing holds buffer_lock, the processing
\* queue is empty, no overflow was counted; no callback or iteration is running.
InitStreamOf(class) ==
    /\ buffer_lock = NoHolder
    /\ cpc = "idle"
    /\ ppc = "idle"
    /\ queue = 0
    /\ buffer_overflow_count = 0
    /\ server = class

InitStream == InitStreamOf(Streamer)

\* No broadcast is under way: no message list, no iterator over self.clients.
NoBroadcast == [messages |-> << >>, i |-> 0, pending |-> {}, used |-> 0,
                client |-> "none", disconnected |-> {}]

\* ASRWebSocketBridge.__init__, line 20: self.clients = set().
InitClients ==
    /\ clients = {}
    /\ bcast = NoBroadcast
    /\ sent = << >>
    /\ joins = 0

\* SharedMemoryAudioBuffer.__init__, line 27: buffer_size, in samples (scaled down
\* from 16000 * 10).
buffer_size == 4

\* No write_audio or read_audio call is running; the locals of a call are its copy
\* of the header and its samples.
NoCall == [pc |-> "idle", n |-> 0, write_pos |-> 0, read_pos |-> 0, audio |-> << >>,
           raised |-> "none"]

\* SharedMemoryAudioBuffer.__init__, lines 34-42: a zero-filled file, then
\* _write_header(0, 0, 16000, 1).
InitMmap ==
    /\ mm = [write_pos |-> 0, read_pos |-> 0, data |-> [k \in 0..(buffer_size - 1) |-> 0]]
    /\ wa = NoCall
    /\ ra = NoCall
    /\ totals = [written |-> 0, read |-> 0]

\* The websocket connections a server accepts.
Connections == {"ws1", "ws2"}

\* parakeet_mlx_server, lines 55 and 269-271: is_streaming = False in the
\* streamer's __init__; no connection has been accepted.
InitSessions ==
    /\ is_streaming = FALSE
    /\ session = [ws \in Connections |-> [pc |-> "none", sent |-> 0]]
    /\ connected = [ws \in Connections |-> FALSE]

\* The websocket connections SimpleASRServer accepts.
SimpleConnections == {"ws1", "ws2", "ws3"}

\* SimpleASRServer.__init__, lines 32-39: no client, not streaming; no
\* audio_processing_loop task was created and no input stream started.
InitSimple ==
    simple = [is_streaming |-> FALSE, clients |-> {},
              handler |-> [ws \in SimpleConnections |-> "none"],
              created |-> 0, running |-> 0, streams |-> 0]

InitServerState == InitClients /\ InitMmap /\ InitSessions /\ InitSimple

Init == InitBuf /\ InitRing /\ InitStream /\ InitServerState

\* _write_word, lines 281-284: the call computes the lengths of its frame.
WriterCall(w, word, confidence) ==
    \E timestamp \in {Now(nwrites)} :
        /\ wpc[w] = "idle"
        /\ nwrites < MaxWrites
        /\ nwrites' = nwrites + 1
        /\ wloc' = [wloc EXCEPT ![w] =
                       [NoWriterLocals EXCEPT
                          !.word = word, !.timestamp = timestamp,
                          !.confidence = confidence,
                          !.padded = Padded(EntryLen(Len(Utf8Encode(word))))]]
        /\ wpc' = [wpc EXCEPT ![w] = "acquire"]
        /\ UNCHANGED << mem, lock, rpc, rloc, last_tail, frames, polls, events, othervars >>

\* A lock that excludes nobody.
LockIgnored(holder) == TRUE

\* A lock the bridge would hold from its read of head to the end of its poll.
LockFreeOfReader(holder) == holder = NoHolder /\ rpc = "sleep"

\* fcntl.flock(lock_fd, LOCK_EX) returns: no other open file description holds
\* the lock on tc_rb.lock.
LockFree(holder) == holder = NoHolder

\* _write_word, line 286: acquire_shared_lock() blocks until the lock is free.
WriterAcquire(w) ==
    /\ wpc[w] = "acquire"
    /\ LockFree(lock)
    /\ lock' = w
    /\ wloc' = [wloc EXCEPT ![w].pre = mem]
    /\ wpc' = [wpc EXCEPT ![w] = "header"]
    /\ UNCHANGED << mem, rpc, rloc, last_tail, nwrites, frames, polls, events, othervars >>

\* An exception that would leave _write_word without passing the finally clause.
RaisedPastFinally(exception) == "idle"

\* _write_word, lines 287 and 313-314: an exception raised inside the try block
\* goes through the finally clause.
Raised(exception) == "release"

\* _write_word, line 291
SpaceLeft(head, tail) == CAPACITY - ((head - tail) % CAPACITY)

\* A tail moved by the whole padded length.
EvictedTailByPadded(head, tail, padded) ==
    IF padded > SpaceLeft(head, tail) THEN (tail + padded) % CAPACITY ELSE tail

\* _write_word, lines 291-293: the tail that makes room for `padded` bytes.
EvictedTail(head, tail, padded) ==
    LET space_left == SpaceLeft(head, tail)
    IN  IF padded > space_left
        THEN (tail + (padded - space_left)) % CAPACITY
        ELSE tail

\* _write_word, lines 289-301: read the cursors, evict, stamp the version, build
\* the entry. struct.pack raises struct.error when entry_len or word_len does not
\* fit the "H" format, after the tail and the version byte were stored.
WriterHeader(w) ==
    /\ wpc[w] = "header"
    /\ LET head == UnpackU32(mem, 0)
           tail == UnpackU32(mem, 4)
           space_left == SpaceLeft(head, tail)
           padded == wloc[w].padded
           newtail == EvictedTail(head, tail, padded)
           m1 == IF padded > space_left THEN PackIntoU32(mem, 4, newtail) ELSE mem
           m2 == IF m1[8] # VERSION_BYTE THEN [m1 EXCEPT ![8] = VERSION_BYTE] ELSE m1
           word_len == Len(Utf8Encode(wloc[w].word))
       IN  /\ mem' = m2
           /\ IF EntryLen(word_len) > U16Max
              THEN /\ wloc' = [wloc EXCEPT ![w].head = head, ![w].tail = newtail,
                                  ![w].evicted = IF padded > space_left
                                                 THEN padded - space_left ELSE 0,
                                  ![w].outcome = "struct.error"]
                   /\ wpc' = [wpc EXCEPT ![w] = Raised("struct.error")]
              ELSE /\ wloc' = [wloc EXCEPT ![w].head = head, ![w].tail = newtail,
                                  ![w].evicted = IF padded > space_left
                                                 THEN padded - space_left ELSE 0,
                                  ![w].entry = Entry(wloc[w].word, wloc[w].timestamp,
                                                     wloc[w].confidence)]
                   /\ wpc' = [wpc EXCEPT ![w] = "copy"]
    /\ UNCHANGED << lock, rpc, rloc, last_tail, nwrites, frames, polls, events, othervars >>

\* A copy that ends with its first part.
NoSecondCopy(end_pos) == "persist"

\* _write_word, lines 304-309: a frame that crosses the end of the payload is
\* copied in two parts.
AfterFirstCopy(end_pos) == IF end_pos <= CAPACITY THEN "persist" ELSE "wrap"

\* _write_word, lines 303-308: the copy at head, or its part before the end of
\* the payload. A slice the segment cannot hold raises ValueError.
WriterCopy(w) ==
    /\ wpc[w] = "copy"
    /\ LET write_pos == wloc[w].head
           padded    == wloc[w].padded
           end_pos   == write_pos + padded
           first     == CAPACITY - write_pos
           lo        == DATA_OFFSET + write_pos
           part      == IF end_pos <= CAPACITY THEN wloc[w].entry
                        ELSE SeqSlice(wloc[w].entry, 0, first)
           hi        == IF end_pos <= CAPACITY THEN lo + padded ELSE lo + first
       IN  IF MemAssignFits(mem, lo, hi, part)
           THEN /\ mem' = MemAssign(mem, lo, part)
                /\ wpc' = [wpc EXCEPT ![w] = AfterFirstCopy(end_pos)]
                /\ wloc' = wloc
           ELSE /\ mem' = mem
                /\ wpc' = [wpc EXCEPT ![w] = Raised("ValueError")]
                /\ wloc' = [wloc EXCEPT ![w].outcome = "ValueError"]
    /\ UNCHANGED << lock, rpc, rloc, last_tail, nwrites, frames, polls, events, othervars >>

\* _write_word, line 309: the rest of the entry, at the start of the payload.
WriterCopyWrap(w) ==
    /\ wpc[w] = "wrap"
    /\ LET first == CAPACITY - wloc[w].head
           rest  == SeqSlice(wloc[w].entry, first, wloc[w].padded)
       IN  IF MemAssignFits(mem, DATA_OFFSET, DATA_OFFSET + wloc[w].padded - first, rest)
           THEN /\ mem' = MemAssign(mem, DATA_OFFSET, rest)
                /\ wpc' = [wpc EXCEPT ![w] = "persist"]
                /\ wloc' = wloc
           ELSE /\ mem' = mem
                /\ wpc' = [wpc EXCEPT ![w] = Raised("ValueError")]
                /\ wloc' = [wloc EXCEPT ![w].outcome = "ValueError"]
    /\ UNCHANGED << lock, rpc, rloc, last_tail, nwrites, frames, polls, events, othervars >>

\* A head that runs past the end of the payload.
NewHeadUnwrapped(head, padded) == head + padded

\* _write_word, line 311
NewHead(head, padded) == (head + padded) % CAPACITY

\* _write_word, lines 311-312
WriterPersistHead(w) ==
    /\ wpc[w] = "persist"
    /\ mem' = PackIntoU32(mem, 0, NewHead(wloc[w].head, wloc[w].padded))
    /\ frames' = Append(frames,
                        [word |-> wloc[w].word, timestamp |-> wloc[w].timestamp,
                         confidence |-> wloc[w].confidence, entry |-> wloc[w].entry,
                         at |-> wloc[w].head, evicted |-> wloc[w].evicted,
                         writer |-> w])
    /\ wloc' = [wloc EXCEPT ![w].outcome = "returned"]
    /\ wpc' = [wpc EXCEPT ![w] = "release"]
    /\ UNCHANGED << lock, rpc, rloc, last_tail, nwrites, polls, events, othervars >>

\* _write_word, lines 313-314: the finally clause, after a return or an exception.
WriterRelease(w) ==
    /\ wpc[w] = "release"
    /\ lock = w
    /\ lock' = NoHolder
    /\ wpc' = [wpc EXCEPT ![w] = "idle"]
    /\ wloc' = [wloc EXCEPT ![w] = NoWriterLocals]
    /\ UNCHANGED << mem, rpc, rloc, last_tail, nwrites, frames, polls, events, othervars >>

\* read_shared_memory_loop, lines 69-72
Available(head, lt) ==
    IF head >= lt THEN head - lt ELSE BridgeCapacity - lt + head

\* read_shared_memory_loop, lines 61-74: read the header; nothing new ends the poll.
ReaderReadHeader ==
    /\ rpc = "sleep"
    /\ LET head == UnpackU32(mem, 0)
           tail == UnpackU32(mem, 4)
       IN  IF head # last_tail /\ Available(head, last_tail) > 0
           THEN /\ rloc' = [head |-> head, tail |-> tail,
                            available |-> Available(head, last_tail), data |-> << >>]
                /\ rpc' = "copy"
           ELSE /\ rloc' = NoReaderLocals
                /\ rpc' = "sleep"
    /\ UNCHANGED << mem, lock, wpc, wloc, last_tail, nwrites, frames, polls, events,
                    othervars >>

\* read_shared_memory_loop, lines 76-84: the copy, and the first part of a
\* wrap-around copy.
ReaderCopy ==
    /\ rpc = "copy"
    /\ LET read_pos == last_tail % BridgeCapacity
       IN  IF read_pos + rloc.available <= BridgeCapacity
           THEN /\ rloc' = [rloc EXCEPT !.data =
                               MemSlice(mem, BRIDGE_OFFSET + read_pos,
                                        BRIDGE_OFFSET + read_pos + rloc.available)]
                /\ rpc' = "decode"
           ELSE /\ rloc' = [rloc EXCEPT !.data =
                               MemSlice(mem, BRIDGE_OFFSET + read_pos, SegLen(mem))]
                /\ rpc' = "wrap"
    /\ UNCHANGED << mem, lock, wpc, wloc, last_tail, nwrites, frames, polls, events,
                    othervars >>

\* read_shared_memory_loop, line 84: the second part of a wrap-around copy.
ReaderCopyWrap ==
    /\ rpc = "wrap"
    /\ LET read_pos   == last_tail % BridgeCapacity
           first_part == BridgeCapacity - read_pos
       IN  rloc' = [rloc EXCEPT !.data =
                       @ \o MemSlice(mem, BRIDGE_OFFSET,
                                     BRIDGE_OFFSET + rloc.available - first_part)]
    /\ rpc' = "decode"
    /\ UNCHANGED << mem, lock, wpc, wloc, last_tail, nwrites, frames, polls, events,
                    othervars >>

\* read_shared_memory_loop, lines 94-100: one message per word, "t" simulated.
Messages(words) ==
    [i \in 1..Len(words) |-> [w |-> words[i], t |-> (i - 1) * 100, c |-> 950]]

\* read_shared_memory_loop, lines 117-118: logger.warning("Failed to decode
\* transcript data").
DecodeWarning == [level |-> "warning", by |-> Bridge, what |-> "decode"]

\* A loop that would end with the UnicodeDecodeError.
DecodeErrorEndsLoop(ok) == IF ok THEN "sleep" ELSE "terminated"

\* read_shared_memory_loop, lines 58 and 117-126: the UnicodeDecodeError is caught
\* inside the `while True` loop, which goes on to its sleep and its next poll.
AfterDecode(ok) == "sleep"

\* read_shared_memory_loop, lines 86-121: decode as text, split into words, send
\* one message per word (nothing after a UnicodeDecodeError), move the cursor.
ReaderDecode ==
    /\ rpc = "decode"
    /\ \E transcript \in {Utf8Decode(rloc.data)} :
           /\ events' = IF transcript.ok
                        THEN events \o Messages(Split(transcript.text))
                        ELSE events
           /\ log' = IF transcript.ok THEN log ELSE Append(log, DecodeWarning)
           /\ last_tail' = rloc.head
           /\ rpc' = AfterDecode(transcript.ok)
    /\ polls' = Append(polls, rloc.data)
    /\ rloc' = NoReaderLocals
    /\ UNCHANGED << mem, lock, wpc, wloc, nwrites, frames, bufvars, streamvars, servervars, lockerrors >>

\* The steps of one _write_word call after its arguments are fixed.
WriterBody(w) ==
    \/ WriterAcquire(w)
    \/ WriterHeader(w)
    \/ WriterCopy(w)
    \/ WriterCopyWrap(w)
    \/ WriterPersistHead(w)
    \/ WriterRelease(w)

\* write_to_shared_memory and _write_word in the one main_server process.
WriterStep ==
    \/ \E word \in Words, confidence \in Confidences : WriterCall(MainServer, word, confidence)
    \/ WriterBody(MainServer)

ReaderStep == ReaderReadHeader \/ ReaderCopy \/ ReaderCopyWrap \/ ReaderDecode

Next == WriterStep \/ ReaderStep

Spec == Init /\ [][Next]_vars

(***************************************************************************)
(* Two main_server processes attached to the same segment, each with its   *)
(* own descriptor of tc_rb.lock. write_to_shared_memory passes confidence  *)
(* 1.0.                                                                    *)
(***************************************************************************)
TranscriptWords == { WordHi, WordCrystallize }

\* write_to_shared_memory in process w: _write_word(w, now, 1.0) for each word.
TranscriptStep(w) ==
    \/ \E word \in TranscriptWords : WriterCall(w, word, 1000)
    \/ WriterBody(w)

TwoWriterStep == \E w \in Writers : TranscriptStep(w)

NextTwoWriters == TwoWriterStep \/ ReaderStep

SpecTwoWriters == Init /\ [][NextTwoWriters]_vars

(***************************************************************************)
(* One main_server process that keeps running: a _write_word call that can *)
(* take its next step takes it. Nothing is assumed of the bridge, which    *)
(* may stop polling at any point.                                          *)
(***************************************************************************)
NextTranscript == TranscriptStep(MainServer) \/ ReaderStep

SpecFair == Init /\ [][NextTranscript]_vars /\ WF_vars(WriterBody(MainServer))

SpecTranscript == Init /\ [][NextTranscript]_vars

(***************************************************************************)
(* A main_server whose flock(LOCK_EX) call can fail with OSError (EINTR,    *)
(* ENOLCK, a closed descriptor). The call is made before the try block of  *)
(* _write_word, so the exception leaves _write_word at once; it passes      *)
(* through write_to_shared_memory and process_transcript to the handler    *)
(* inside the loop of asr_concept_loop.                                    *)
(***************************************************************************)
MaxLockErrors == 1

\* process_transcript, lines 258-260, then asr_concept_loop, lines 207-210.
TranscriptErrors(w) ==
    << [level |-> "error", by |-> w, what |-> "process_transcript"],
       [level |-> "error", by |-> w, what |-> "asr_concept_loop"] >>

\* _write_word, line 286, with acquire_shared_lock (lines 90-92) raising: nothing
\* of the region is read or written, the finally clause is not entered.
WriterAcquireFails(w) ==
    /\ wpc[w] = "acquire"
    /\ lockerrors < MaxLockErrors
    /\ lockerrors' = lockerrors + 1
    /\ wloc' = [wloc EXCEPT ![w].outcome = "OSError"]
    /\ wpc' = [wpc EXCEPT ![w] = "raised"]
    /\ UNCHANGED << mem, lock, rpc, rloc, last_tail, nwrites, frames, polls, events,
                    bufvars, streamvars, servervars, log >>

\* process_transcript, lines 258-260: log the error and re-raise; asr_concept_loop,
\* lines 205-210: log the error and `continue` with the next transcript.
TranscriptErrorCaught(w) ==
    /\ wpc[w] = "raised"
    /\ log' = log \o TranscriptErrors(w)
    /\ wloc' = [wloc EXCEPT ![w] = NoWriterLocals]
    /\ wpc' = [wpc EXCEPT ![w] = "idle"]
    /\ UNCHANGED << mem, lock, rpc, rloc, last_tail, nwrites, frames, polls, events,
                    bufvars, streamvars, servervars, lockerrors >>

NextLockFail ==
    \/ TranscriptStep(MainServer)
    \/ WriterAcquireFails(MainServer)
    \/ TranscriptErrorCaught(MainServer)
    \/ ReaderStep

SpecLockFail == Init /\ [][NextLockFail]_vars

(***************************************************************************)
(* The audio pipeline of OptimizedParakeetStreamer and of SimpleASRServer: *)
(* the sounddevice thread runs audio_callback for each block of samples,   *)
(* the event loop runs the processing loop. Both use one                   *)
(* CircularAudioBuffer, here of `size` samples, and one threading.Lock.    *)
(* The lengths are scaled to the ring: a chunk is half of it, the overlap  *)
(* is shorter than the chunk.                                              *)
(***************************************************************************)
AudioThread == "audio_callback"
ProcessingLoop == "processing_loop"

\* Samples per callback: the stream's blocksize (512 of 160000), one sample of the ring here.
blocksize == 1
chunk_samples == size \div 2
overlap_samples == chunk_samples - 1
\* Queue(maxsize=3)
QueueMaxsize == 3

\* A buffer_lock that excludes nobody.
BufferLockIgnored(holder) == TRUE

\* threading.Lock.acquire returns: no thread holds the lock.
BufferLockFree(holder) == holder = NoHolder

\* Queue.put, which waits until the queue has room.
PutWaitsForSpace(q) == q < QueueMaxsize

\* Queue.put_nowait returns at once, with or without queue.Full.
PutReturns(q) == TRUE

\* put_nowait inside `try: ... except: pass`: a full queue drops the trigger.
PutNowait(q) == IF q < QueueMaxsize THEN q + 1 ELSE q

streamIdle == << misuses, ringvars, servervars >>

\* Blocks the audio thread delivers in a run.
MaxBlocks == MaxSamples

\* audio_callback is called with the next block of samples, nframes long.
CallbackStartBlock(nframes) ==
    /\ cpc = "idle"
    /\ nsamples + nframes <= MaxBlocks * nframes
    /\ cpc' = "lock"
    /\ UNCHANGED << buffer_lock, ppc, queue, buffer_overflow_count, server, bufvars, ringvars, servervars >>

CallbackStart == CallbackStartBlock(blocksize)

\* `with self.buffer_lock:` in audio_callback
CallbackAcquire ==
    /\ cpc = "lock"
    /\ BufferLockFree(buffer_lock)
    /\ buffer_lock' = AudioThread
    /\ cpc' = "write"
    /\ UNCHANGED << ppc, queue, buffer_overflow_count, server, bufvars, ringvars, servervars >>

\* audio_buffer.write(audio_chunk); the streamer also counts a write into a
\* ring that was full and stays full.
CallbackWriteBlock(nframes) ==
    /\ cpc = "write"
    /\ Write([i \in 1..nframes |-> nsamples + i])
    /\ buffer_overflow_count' =
           IF server = Streamer /\ length = size /\ length' = size
           THEN buffer_overflow_count + 1
           ELSE buffer_overflow_count
    /\ cpc' = "unlock"
    /\ UNCHANGED << buffer_lock, ppc, queue, server, streamIdle >>

CallbackWrite == CallbackWriteBlock(blocksize)

\* The end of the with block in audio_callback.
CallbackRelease ==
    /\ cpc = "unlock"
    /\ buffer_lock' = NoHolder
    /\ cpc' = "trigger"
    /\ UNCHANGED << ppc, queue, buffer_overflow_count, server, bufvars, ringvars, servervars >>

\* audio_callback after the with block: the length is read without the lock and
\* a trigger is queued when a chunk is there.
CallbackTrigger ==
    /\ cpc = "trigger"
    /\ IF length >= chunk_samples
       THEN /\ PutReturns(queue)
            /\ queue' = PutNowait(queue)
       ELSE queue' = queue
    /\ cpc' = "idle"
    /\ UNCHANGED << buffer_lock, ppc, buffer_overflow_count, server, bufvars, ringvars, servervars >>

\* The processing loop finds the queue not empty and takes one trigger.
ConsumerGet ==
    /\ ppc = "idle"
    /\ queue > 0
    /\ queue' = queue - 1
    /\ ppc' = "lock"
    /\ UNCHANGED << buffer_lock, cpc, buffer_overflow_count, server, bufvars, ringvars, servervars >>

\* `with self.buffer_lock:` in the processing loop
ConsumerAcquire ==
    /\ ppc = "lock"
    /\ BufferLockFree(buffer_lock)
    /\ buffer_lock' = ProcessingLoop
    /\ ppc' = "check"
    /\ UNCHANGED << cpc, queue, buffer_overflow_count, server, bufvars, ringvars, servervars >>

\* The length check, then `return []` / `continue`, or the read of one chunk:
\* read_with_overlap in the streamer, read in SimpleASRServer.
ConsumerCheckRead ==
    /\ ppc = "check"
    /\ IF length < chunk_samples
       THEN /\ ppc' = "unlock_short"
            /\ UNCHANGED bufvars
       ELSE /\ ppc' = "unlock"
            /\ IF server = Streamer
               THEN ReadWithOverlap(chunk_samples, overlap_samples)
               ELSE Read(chunk_samples)
            /\ UNCHANGED misuses
    /\ UNCHANGED << buffer_lock, cpc, queue, buffer_overflow_count, server, ringvars, servervars >>

\* The end of the with block in the processing loop: before the inference when
\* a chunk was read, back to the loop when not.
ConsumerRelease ==
    /\ ppc \in {"unlock", "unlock_short"}
    /\ buffer_lock' = NoHolder
    /\ ppc' = IF ppc = "unlock" THEN "infer" ELSE "idle"
    /\ UNCHANGED << cpc, queue, buffer_overflow_count, server, bufvars, ringvars, servervars >>

\* The model inference on the chunk and the sends of its words.
ConsumerInfer ==
    /\ ppc = "infer"
    /\ ppc' = "idle"
    /\ UNCHANGED << buffer_lock, cpc, queue, buffer_overflow_count, server, bufvars, ringvars, servervars >>

CallbackStep ==
    CallbackStart \/ CallbackAcquire \/ CallbackWrite \/ CallbackRelease \/ CallbackTrigger

\* The steps of the processing loop made while it holds buffer_lock.
ConsumerLocked == ConsumerCheckRead \/ ConsumerRelease

ConsumerStep == ConsumerGet \/ ConsumerAcquire \/ ConsumerLocked \/ ConsumerInfer

NextStream == CallbackStep \/ ConsumerStep

InitServers ==
    InitBuf /\ InitRing /\ InitServerState /\ \E class \in Servers : InitStreamOf(class)

SpecStream == InitServers /\ [][NextStream]_vars

\* A block length that does not divide the buffer's size, as the 512 frames of a
\* block do not divide the 160000 samples of the streamer's buffer.
LongBlock == 3

\* audio_callback with blocks of LongBlock frames.
LongCallbackStep ==
    \/ CallbackStartBlock(LongBlock)
    \/ CallbackAcquire
    \/ CallbackWriteBlock(LongBlock)
    \/ CallbackRelease
    \/ CallbackTrigger

NextBlocks == LongCallbackStep \/ ConsumerStep

SpecBlocks == Init /\ [][NextBlocks]_vars

\* The audio thread runs, and a thread inside the with block reaches its end;
\* nothing is assumed of the inference, of the sends or of the loop's pace.
SpecStreamFair ==
    InitServers /\ [][NextStream]_vars /\ WF_vars(CallbackStep) /\ WF_vars(ConsumerLocked)

(***************************************************************************)
(* Start-up: main_server attaches to the segment tc_rb or creates it, the  *)
(* bridge attaches to it. The segment outlives the processes (nothing      *)
(* unlinks it), so one left by a build with another SHM_SIZE may exist.    *)
(***************************************************************************)
\* Sizes of a segment left by a build whose SHM_SIZE differs.
ForeignSizes == { SHM_SIZE - 8, SHM_SIZE + 8 }

InitSetup ==
    /\ InitBuf
    /\ mem \in {NoSegment} \cup { NewSegment(n) : n \in ForeignSizes }
    /\ lock = NoHolder
    /\ wpc = [w \in Writers |-> "start"]
    /\ wloc = [w \in Writers |-> NoWriterLocals]
    /\ rpc = "start"
    /\ rloc = NoReaderLocals
    /\ last_tail = 0
    /\ nwrites = 0
    /\ frames = << >>
    /\ polls = << >>
    /\ events = << >>
    /\ log = << >>
    /\ lockerrors = 0
    /\ InitStream
    /\ InitServerState

\* A start-up that creates the segment anew whether or not one exists.
CreateAlways(m) == NewSegment(SHM_SIZE)

\* main_server, lines 78-81: SharedMemory(name=SHM_NAME), and on
\* FileNotFoundError SharedMemory(name=SHM_NAME, create=True, size=SHM_SIZE).
AttachOrCreate(m) == IF SegLen(m) > 0 THEN m ELSE NewSegment(SHM_SIZE)

\* main_server, lines 78-83: attach to the segment if it exists, whatever its
\* size; create it, zero-filled, if it does not.
MainSetup(w) ==
    /\ wpc[w] = "start"
    /\ mem' = AttachOrCreate(mem)
    /\ wpc' = [wpc EXCEPT ![w] = "idle"]
    /\ UNCHANGED << lock, wloc, rpc, rloc, last_tail, nwrites, frames, polls, events,
                    othervars >>

\* ASRWebSocketBridge.__init__, lines 23-31: attach, or raise FileNotFoundError.
BridgeAttach ==
    /\ rpc = "start"
    /\ rpc' = IF SegLen(mem) > 0 THEN "sleep" ELSE "failed"
    /\ last_tail' = 0
    /\ UNCHANGED << mem, lock, wpc, wloc, rloc, nwrites, frames, polls, events, othervars >>

NextSetup ==
    \/ MainSetup(MainServer)
    \/ BridgeAttach
    \/ TranscriptStep(MainServer)
    \/ ReaderStep

SpecSetup == InitSetup /\ [][NextSetup]_vars

(***************************************************************************)
(* Transcripts with words whose frame is longer than the payload area: 50  *)
(* and 60 letters "a" give frames of 72 and 80 bytes.                      *)
(***************************************************************************)
WordLong50 == [i \in 1..50 |-> 97]
WordLong60 == [i \in 1..60 |-> 97]
OversizeWords == { WordHi, WordCrystallize, WordLong50, WordLong60 }

OversizeStep ==
    \/ \E word \in OversizeWords : WriterCall(MainServer, word, 1000)
    \/ WriterBody(MainServer)

NextOversize == OversizeStep \/ ReaderStep

SpecOversize == Init /\ [][NextOversize]_vars

(***************************************************************************)
(* The transcript "hi there friend": write_to_shared_memory writes its     *)
(* words in order, each with confidence 1.0.                               *)
(***************************************************************************)
WordThere == << 116, 104, 101, 114, 101 >>
WordFriend == << 102, 114, 105, 101, 110, 100 >>
ScenarioWords == << WordHi, WordThere, WordFriend >>

ScenarioCall ==
    /\ nwrites < Len(ScenarioWords)
    /\ WriterCall(MainServer, ScenarioWords[nwrites + 1], 1000)

ScenarioStep == ScenarioCall \/ WriterBody(MainServer)

NextScenario == ScenarioStep \/ ReaderStep

SpecScenario == Init /\ [][NextScenario]_vars

(***************************************************************************)
(* main_server writing alone, words of several lengths: "remember" has 8   *)
(* bytes, so its 24-byte entry needs no padding; the 2 letters of WordNe   *)
(* are 3 bytes of UTF-8.                                                   *)
(***************************************************************************)
WordRemember == << 114, 101, 109, 101, 109, 98, 101, 114 >>
EncodeWords == { WordHi, WordNe, WordRemember }

EncodeStep ==
    \/ \E word \in EncodeWords, confidence \in Confidences :
          WriterCall(MainServer, word, confidence)
    \/ WriterBody(MainServer)

SpecEncode == Init /\ [][EncodeStep]_vars

(***************************************************************************)
(* asr_websocket_bridge.py: the broadcast of one poll to self.clients, and  *)
(* handle_client, which runs on the same event loop whenever the loop of    *)
(* read_shared_memory_loop is suspended in an await.                        *)
(***************************************************************************)

\* Connects and disconnects a run is followed through.
MaxJoins == 3

\* What the broadcast actions leave alone.
bridgeIdle == << mem, lock, wpc, wloc, nwrites, frames, lockerrors, bufvars, streamvars,
                 mmapvars, sessionvars, simple >>

\* read_shared_memory_loop, lines 123-124: logger.error("Error reading shared
\* memory: ...").
ReadError == [level |-> "error", by |-> Bridge, what |-> "read"]

\* The awaits of read_shared_memory_loop: asyncio.sleep(0.1) at line 126, the
\* client.send at line 106, asyncio.sleep(0.05) at line 113.
AwaitPoints == {"sleep", "send", "pause"}

\* The positions of read_shared_memory_loop between lines 94 and 115.
Broadcasting == {"word", "next", "send", "pause"}

\* read_shared_memory_loop, lines 86-92 and 117-121: decode and split; a
\* UnicodeDecodeError is logged and the cursor moves on.
BroadcastDecode ==
    /\ rpc = "decode"
    /\ \E transcript \in {Utf8Decode(rloc.data)} :
           IF transcript.ok
           THEN /\ bcast' = [NoBroadcast EXCEPT !.messages = Messages(Split(transcript.text)),
                                                !.i = 1]
                /\ rpc' = "word"
                /\ UNCHANGED << log, last_tail, rloc >>
           ELSE /\ log' = Append(log, DecodeWarning)
                /\ last_tail' = rloc.head
                /\ rpc' = "sleep"
                /\ rloc' = NoReaderLocals
                /\ UNCHANGED bcast
    /\ polls' = Append(polls, rloc.data)
    /\ UNCHANGED << events, clients, sent, joins, bridgeIdle >>

\* read_shared_memory_loop, lines 94-104 and 115-121: the next word's message and a
\* new iterator over self.clients; after the last word, self.last_tail = head.
BroadcastWord ==
    /\ rpc = "word"
    /\ IF bcast.i > Len(bcast.messages)
       THEN /\ last_tail' = rloc.head
            /\ rpc' = "sleep"
            /\ rloc' = NoReaderLocals
            /\ bcast' = NoBroadcast
            /\ UNCHANGED events
       ELSE /\ events' = Append(events, bcast.messages[bcast.i])
            /\ bcast' = [bcast EXCEPT !.pending = clients, !.used = Cardinality(clients),
                                      !.disconnected = {}]
            /\ rpc' = "next"
            /\ UNCHANGED << last_tail, rloc >>
    /\ UNCHANGED << polls, log, clients, sent, joins, bridgeIdle >>

\* read_shared_memory_loop, lines 104, 110 and 123-124: the set iterator's next().
\* It raises RuntimeError("Set changed size during iteration") when the size of
\* the set differs from its size at the iterator's creation; the exception leaves
\* the inner try, whose handler is for UnicodeDecodeError only, and is caught at
\* line 123, past line 121.
BroadcastNext ==
    /\ rpc = "next"
    /\ IF Cardinality(clients) # bcast.used
       THEN /\ log' = Append(log, ReadError)
            /\ rpc' = "sleep"
            /\ rloc' = NoReaderLocals
            /\ bcast' = NoBroadcast
            /\ UNCHANGED clients
       ELSE IF bcast.pending = {}
            THEN /\ clients' = clients \ bcast.disconnected
                 /\ rpc' = "pause"
                 /\ UNCHANGED << log, rloc, bcast >>
            ELSE /\ \E client \in bcast.pending :
                        bcast' = [bcast EXCEPT !.pending = @ \ {client}, !.client = client]
                 /\ rpc' = "send"
                 /\ UNCHANGED << log, rloc, clients >>
    /\ UNCHANGED << last_tail, polls, events, sent, joins, bridgeIdle >>

\* read_shared_memory_loop, lines 105-108: the awaited send returns, or raises
\* because the client's connection is closed.
BroadcastSend ==
    /\ rpc = "send"
    /\ IF bcast.client \in clients
       THEN /\ sent' = Append(sent, [client |-> bcast.client, i |-> bcast.i,
                                     tail |-> last_tail, head |-> rloc.head])
            /\ UNCHANGED bcast
       ELSE /\ bcast' = [bcast EXCEPT !.disconnected = @ \cup {bcast.client}]
            /\ UNCHANGED sent
    /\ rpc' = "next"
    /\ UNCHANGED << last_tail, rloc, polls, events, log, clients, joins, bridgeIdle >>

\* read_shared_memory_loop, line 113: asyncio.sleep(0.05) returns.
BroadcastResume ==
    /\ rpc = "pause"
    /\ bcast' = [bcast EXCEPT !.i = @ + 1]
    /\ rpc' = "word"
    /\ UNCHANGED << last_tail, rloc, polls, events, log, clients, sent, joins, bridgeIdle >>

\* handle_client, line 36: self.clients.add(websocket). The slot the new element
\* takes in the set's table is before or after the position of a live iterator.
ClientConnect(websocket) ==
    /\ rpc \in AwaitPoints
    /\ joins < MaxJoins
    /\ websocket \notin clients
    /\ clients' = clients \cup {websocket}
    /\ joins' = joins + 1
    /\ \/ UNCHANGED bcast
       \/ /\ rpc = "send"
          /\ bcast' = [bcast EXCEPT !.pending = @ \cup {websocket}]
    /\ UNCHANGED << rpc, last_tail, rloc, polls, events, log, sent, bridgeIdle >>

\* handle_client, lines 47-52: wait_closed() returns and the finally clause runs
\* self.clients.discard(websocket).
ClientDisconnect(websocket) ==
    /\ rpc \in AwaitPoints
    /\ joins < MaxJoins
    /\ websocket \in clients
    /\ clients' = clients \ {websocket}
    /\ joins' = joins + 1
    /\ bcast' = [bcast EXCEPT !.pending = @ \ {websocket}]
    /\ UNCHANGED << rpc, last_tail, rloc, polls, events, log, sent, bridgeIdle >>

BroadcastStep ==
    \/ BroadcastDecode
    \/ BroadcastWord
    \/ BroadcastNext
    \/ BroadcastSend
    \/ BroadcastResume

HandleClient ==
    \E websocket \in Connections : ClientConnect(websocket) \/ ClientDisconnect(websocket)

\* main_server writes words whose frames decode as text.
TextWriterStep ==
    \/ WriterCall(MainServer, WordHi, 500)
    \/ WriterBody(MainServer)

NextBroadcast ==
    \/ TextWriterStep
    \/ ReaderReadHeader
    \/ ReaderCopy
    \/ ReaderCopyWrap
    \/ BroadcastStep
    \/ HandleClient

SpecBroadcast == Init /\ [][NextBroadcast]_vars

(***************************************************************************)
(* optimized_parakeet_server.py: SharedMemoryAudioBuffer. write_audio runs  *)
(* in the audio callback's thread, read_audio in the thread of              *)
(* process_audio_chunk; no lock guards the mapped file. Samples are         *)
(* numbered from 1 in the order they are written.                           *)
(***************************************************************************)

\* Samples a run writes, and the longest chunk of one call.
MaxAudio == 6
MaxAudioChunk == 2

\* What the calls on the mapped file leave alone.
mmapIdle == << bufvars, ringvars, streamvars, clientvars, sessionvars, simple >>

\* write_audio, line 55: the call's copy of the header.
WriteAudioReadHeader ==
    /\ wa.pc = "idle"
    /\ \E n \in 1..MaxAudioChunk :
           /\ totals.written + n <= MaxAudio
           /\ wa' = [NoCall EXCEPT !.pc = "copy", !.n = n,
                                   !.write_pos = mm.write_pos, !.read_pos = mm.read_pos,
                                   !.audio = [k \in 1..n |-> totals.written + k]]
    /\ UNCHANGED << mm, ra, totals, mmapIdle >>

\* write_audio, lines 62-72: the chunk goes to (write_pos % buffer_size) and what
\* does not fit before the end of the file goes to the start of the samples.
WriteAudioData(data, write_pos, audio) ==
    [k \in 0..(buffer_size - 1) |->
        LET d == (k - write_pos) % buffer_size
        IN  IF d < Len(audio) THEN audio[d + 1] ELSE data[k]]

WriteAudioCopy ==
    /\ wa.pc = "copy"
    /\ mm' = [mm EXCEPT !.data = WriteAudioData(@, wa.write_pos, wa.audio)]
    /\ totals' = [totals EXCEPT !.written = @ + wa.n]
    /\ wa' = [wa EXCEPT !.pc = "header"]
    /\ UNCHANGED << ra, mmapIdle >>

\* write_audio, lines 75-76: _write_header(write_pos + len(audio_chunk), read_pos,
\* ...) with the read_pos of line 55.
WriteAudioHeader ==
    /\ wa.pc = "header"
    /\ mm' = [mm EXCEPT !.write_pos = wa.write_pos + wa.n, !.read_pos = wa.read_pos]
    /\ wa' = NoCall
    /\ UNCHANGED << ra, totals, mmapIdle >>

\* read_audio, lines 80-84: the call's copy of the header; None when fewer than
\* num_samples samples are available.
ReadAudioReadHeader ==
    /\ ra.pc = "idle"
    /\ \E num_samples \in 1..MaxAudioChunk :
           /\ totals.read + num_samples <= MaxAudio
           /\ IF mm.write_pos - mm.read_pos < num_samples
              THEN ra' = NoCall
              ELSE ra' = [NoCall EXCEPT !.pc = "copy", !.n = num_samples,
                                        !.write_pos = mm.write_pos,
                                        !.read_pos = mm.read_pos]
    /\ UNCHANGED << mm, wa, totals, mmapIdle >>

\* read_audio, lines 87-95: num_samples samples from (read_pos % buffer_size) on.
ReadAudioCopy ==
    /\ ra.pc = "copy"
    /\ ra' = [ra EXCEPT !.pc = "assign",
                        !.audio = [k \in 1..ra.n |->
                                      mm.data[(ra.read_pos + k - 1) % buffer_size]]]
    /\ totals' = [totals EXCEPT !.read = @ + ra.n]
    /\ UNCHANGED << mm, wa, mmapIdle >>

\* read_audio, line 98: self._read_header()[1] = read_pos + num_samples assigns to
\* an item of the tuple struct.unpack returned, which raises TypeError; lines 99-101,
\* the header update and the return, are not reached.
ReadAudioAssign ==
    /\ ra.pc = "assign"
    /\ ra' = [NoCall EXCEPT !.raised = "TypeError", !.n = ra.n, !.audio = ra.audio]
    /\ UNCHANGED << mm, wa, totals, mmapIdle >>

WriteAudio == WriteAudioReadHeader \/ WriteAudioCopy \/ WriteAudioHeader

ReadAudio == ReadAudioReadHeader \/ ReadAudioCopy \/ ReadAudioAssign

NextMmap == WriteAudio \/ ReadAudio

SpecMmap == Init /\ [][NextMmap]_vars

(***************************************************************************)
(* parakeet_mlx_server.py: handle_client and start_streaming. Every         *)
(* connection's handler runs on the one event loop and uses the one global  *)
(* streamer; a handler gives way to the others at its awaits only.          *)
(***************************************************************************)

\* Messages one session is followed through.
MaxSent == 2

\* What the session actions leave alone.
sessionIdle == << bufvars, ringvars, streamvars, clientvars, mmapvars, simple >>

\* The awaits of start_streaming: websocket.send at line 231, asyncio.sleep at
\* lines 244 and 246.
Streaming == {"send", "sleep"}

\* start_streaming, lines 212-246: one pass of `while self.is_streaming` up to its
\* first await: a word to send when process_audio_chunk returned one, else the
\* sleep.
LoopBody(ws, pc) ==
    \/ pc = "sleep"
    \/ pc = "send" /\ session[ws].sent < MaxSent

\* handle_client, lines 273-287, and start_streaming, lines 197-209.
SessionStart(ws) ==
    /\ session[ws].pc = "none"
    /\ connected' = [connected EXCEPT ![ws] = TRUE]
    /\ is_streaming' = TRUE
    /\ \E pc \in Streaming :
           /\ LoopBody(ws, pc)
           /\ session' = [session EXCEPT ![ws].pc = pc]
    /\ UNCHANGED sessionIdle

\* The client closes the connection.
ConnectionClosed(ws) ==
    /\ session[ws].pc \in Streaming
    /\ connected[ws]
    /\ connected' = [connected EXCEPT ![ws] = FALSE]
    /\ UNCHANGED << is_streaming, session, sessionIdle >>

\* start_streaming, lines 231-246: the awaited send returns, or raises
\* ConnectionClosed: self.is_streaming = False and `break` out of the for loop.
SessionSend(ws) ==
    /\ session[ws].pc = "send"
    /\ is_streaming' = (is_streaming /\ connected[ws])
    /\ \E pc \in Streaming :
           /\ LoopBody(ws, pc)
           /\ session' = [session EXCEPT ![ws].pc = pc,
                                         ![ws].sent = IF connected[ws] THEN @ + 1 ELSE @]
    /\ UNCHANGED << connected, sessionIdle >>

\* start_streaming, lines 212 and 244-263, handle_client, lines 294-296, and
\* stop_streaming: the sleep returns; the loop goes on while self.is_streaming and
\* else ends, and handle_client's finally clause calls streamer.stop_streaming().
SessionWake(ws) ==
    /\ session[ws].pc = "sleep"
    /\ IF is_streaming
       THEN /\ \E pc \in Streaming :
                   /\ LoopBody(ws, pc)
                   /\ session' = [session EXCEPT ![ws].pc = pc]
            /\ UNCHANGED is_streaming
       ELSE /\ session' = [session EXCEPT ![ws].pc = "done"]
            /\ is_streaming' = FALSE
    /\ UNCHANGED << connected, sessionIdle >>

SessionStep(ws) ==
    \/ SessionStart(ws)
    \/ ConnectionClosed(ws)
    \/ SessionSend(ws)
    \/ SessionWake(ws)

NextSessions == \E ws \in Connections : SessionStep(ws)

SpecSessions == Init /\ [][NextSessions]_vars

(***************************************************************************)
(* standalone_asr_server.py: SimpleASRServer.handle_client and the          *)
(* audio_processing_loop tasks it creates, all on one event loop.           *)
(* simple.created counts the tasks that have not run yet, simple.running    *)
(* those suspended in the loop, simple.streams the started input streams.   *)
(***************************************************************************)

\* What the SimpleASRServer actions leave alone.
simpleIdle == << bufvars, ringvars, streamvars, clientvars, mmapvars, sessionvars >>

\* handle_client, lines 59-68: self.clients.add(websocket), then the awaited send.
SimpleConnect(ws) ==
    /\ simple.handler[ws] = "none"
    /\ simple' = [simple EXCEPT !.clients = @ \cup {ws}, !.handler[ws] = "hello"]
    /\ UNCHANGED simpleIdle

\* handle_client, lines 71-76, and start_audio_stream: the send returned; when
\* is_streaming is False a task is created for audio_processing_loop and the
\* stream is started with is_streaming = True; then wait_closed() is awaited.
SimpleStart(ws) ==
    /\ simple.handler[ws] = "hello"
    /\ simple' = IF simple.is_streaming
                 THEN [simple EXCEPT !.handler[ws] = "open"]
                 ELSE [simple EXCEPT !.handler[ws] = "open",
                                     !.created = @ + 1,
                                     !.is_streaming = TRUE,
                                     !.streams = @ + 1]
    /\ UNCHANGED simpleIdle

\* handle_client, lines 78-85, and stop_audio_stream: the connection closes during
\* the send or wait_closed(); the finally clause discards the client and, when it
\* was the last one and is_streaming is True, stops and closes the stream.
SimpleClose(ws) ==
    /\ simple.handler[ws] \in {"hello", "open"}
    /\ LET remaining == simple.clients \ {ws}
       IN  simple' = IF remaining = {} /\ simple.is_streaming
                     THEN [simple EXCEPT !.clients = remaining, !.handler[ws] = "done",
                                         !.is_streaming = FALSE,
                                         !.streams = @ - 1]
                     ELSE [simple EXCEPT !.clients = remaining, !.handler[ws] = "done"]
    /\ UNCHANGED simpleIdle

\* audio_processing_loop, lines 110-113 and 173: a created task runs for the first
\* time, up to its first await, or finds is_streaming False and returns.
LoopRun ==
    /\ simple.created > 0
    /\ simple' = IF simple.is_streaming
                 THEN [simple EXCEPT !.created = @ - 1, !.running = @ + 1]
                 ELSE [simple EXCEPT !.created = @ - 1]
    /\ UNCHANGED simpleIdle

\* audio_processing_loop, lines 113 and 155-175: an await of the loop returns; the
\* loop goes on to its next await while is_streaming is True and returns otherwise.
LoopWake ==
    /\ simple.running > 0
    /\ simple' = IF simple.is_streaming
                 THEN simple
                 ELSE [simple EXCEPT !.running = @ - 1]
    /\ UNCHANGED simpleIdle

SimpleHandleClient(ws) == SimpleConnect(ws) \/ SimpleStart(ws) \/ SimpleClose(ws)

NextSimple ==
    \/ \E ws \in SimpleConnections : SimpleHandleClient(ws)
    \/ LoopRun
    \/ LoopWake

SpecSimple == Init /\ [][NextSimple]_vars

(***************************************************************************)
(* Properties of the shared-memory word ring                               *)
(***************************************************************************)
IsPrefix(p, d) == Len(p) <= Len(d) /\ SeqSlice(d, 0, Len(p)) = p

\* No _write_word call and no poll is under way.
Quiescent == (\A w \in Writers : wpc[w] = "idle") /\ rpc = "sleep"

\* The bridge's cursor has reached the stored head.
CaughtUp == last_tail = UnpackU32(mem, 0)

\* Sum of the padded lengths of the frames stored so far.
TotalPadded == Len(Flatten([i \in 1..Len(frames) |-> frames[i].entry]))

\* The bytes of the frames stored so far, in write order.
FrameBytes == Flatten([i \in 1..Len(frames) |-> frames[i].entry])

\* C1: writes from the empty region that total at most CAPACITY bytes are read
\* back by the bridge, polling from cursor 0, as exactly the frames' bytes in
\* write order.
C1_FifoBytes ==
    (frames # << >> /\ TotalPadded <= CAPACITY) =>
        /\ IsPrefix(Flatten(polls), FrameBytes)
        /\ (Quiescent /\ CaughtUp) => Flatten(polls) = FrameBytes

RECURSIVE WholeFrames(_)
\* d is a concatenation of entries the writer stored in full.
WholeFrames(d) ==
    \/ d = << >>
    \/ \E k \in 1..Len(frames) :
          /\ IsPrefix(frames[k].entry, d)
          /\ WholeFrames(SeqSlice(d, Len(frames[k].entry), Len(d)))

\* C2: under every interleaving of writes (evicting or not) and polls, the bytes
\* a poll returns are made of frames the writer wrote in full, each intact.
C2_NoTornFrame == \A i \in 1..Len(polls) : WholeFrames(polls[i])

\* C3: the messages the bridge builds carry the word, timestamp and confidence
\* the writer stored, one message per frame.
C3_EventRoundTrip ==
    (frames # << >> /\ TotalPadded <= CAPACITY /\ Quiescent /\ CaughtUp) =>
        events = [i \in 1..Len(frames) |->
                     [w |-> frames[i].word, t |-> frames[i].timestamp,
                      c |-> frames[i].confidence]]

\* The head and tail cursors stored in the header of the segment.
StoredHead == UnpackU32(mem, 0)
StoredTail == UnpackU32(mem, 4)

\* No _write_word call is under way in any process.
WritersIdle == \A w \in Writers : wpc[w] = "idle"

\* The bytes written and not yet displaced: no reader moves the stored tail, so
\* they are all the bytes written, up to the CAPACITY most recent ones.
UnreadBytes == Min(TotalPadded, CAPACITY)

\* C11 (range part): both cursors stay inside [0, CAPACITY).
CursorsInRange ==
    /\ 0 <= StoredHead /\ StoredHead < CAPACITY
    /\ 0 <= StoredTail /\ StoredTail < CAPACITY

\* C11: in every state reached by _write_word calls from a freshly created
\* region, 0 <= head < CAPACITY and 0 <= tail < CAPACITY, and between calls the
\* unread length is (head - tail) mod CAPACITY.
C11_CursorInvariant ==
    /\ CursorsInRange
    /\ WritersIdle => (StoredHead - StoredTail) % CAPACITY = UnreadBytes

\* Process w is between acquire_shared_lock() and release_shared_lock().
InCritical(w) == wpc[w] \in {"header", "copy", "wrap", "persist", "release"}

\* A step in which every process inside _write_word's locked section holds the
\* lock, and which changes the segment only if it is a step of the lock's holder.
ExclusiveStep ==
    /\ \A w \in Writers : InCritical(w)' => lock' = w
    /\ mem' # mem => /\ lock \in Writers
                     /\ lock' = lock
                     /\ InCritical(lock)
                     /\ wpc'[lock] # wpc[lock]

\* C12: two processes running _write_word never interleave their updates: between
\* one writer's acquire and release no other process holds the lock, and every
\* access of head, tail, version or payload by _write_word is made by the process
\* that holds the lock.
C12_WritersExclusive == [][ExclusiveStep]_vars

\* One process is copying its frame, holding the lock, while the other, which
\* stored a frame before, waits for the lock.
C12_Witness ==
    \E w1 \in Writers, w2 \in Writers :
        /\ w1 # w2
        /\ wpc[w1] = "copy"
        /\ lock = w1
        /\ wpc[w2] = "acquire"
        /\ \E j \in 1..Len(frames) : frames[j].writer = w2

\* C13: the bridge copies payload bytes only after reading head under the
\* cross-process lock and holds the lock for the whole copy, so no writer is
\* inside _write_word's locked section while the bridge is copying.
C13_ReaderHoldsLock ==
    rpc \in {"copy", "wrap"} =>
        /\ lock = Bridge
        /\ \A w \in Writers : ~InCritical(w)

\* C14: a _write_word call always completes without waiting for any reader
\* action: whatever the bridge does or stops doing, the call takes the lock, makes
\* room by eviction and returns.
C14_WriterNeverWaitsForReader == (wpc[MainServer] # "idle") ~> (wpc[MainServer] = "idle")

\* Every call has returned, one of them after evicting, and the bridge has never
\* polled.
C14_Witness ==
    /\ WritersIdle
    /\ Len(frames) = MaxWrites
    /\ \E i \in 1..Len(frames) : frames[i].evicted > 0
    /\ polls = << >>
    /\ rpc = "sleep"
    /\ last_tail = 0

\* The number of evictions main_server reports: _write_word keeps no counter and
\* logs nothing when it moves the tail, so an observer always reads 0.
EvictionTelemetry == 0

\* The calls so far that moved the tail and stored their frame.
EvictingCalls == { i \in 1..Len(frames) : frames[i].evicted > 0 }

\* C15: every _write_word call that advances tail increments an eviction counter
\* observable as telemetry, and completes normally without raising.
C15_EvictionCounted ==
    /\ EvictionTelemetry = Cardinality(EvictingCalls)
    /\ \A w \in Writers :
          wloc[w].evicted > 0 => wloc[w].outcome \in {"none", "returned"}

\* The words of the messages the bridge has built, in order.
EventWords == [i \in 1..Len(events) |-> events[i].w]

\* C16: in a region of capacity 64, writing "hi", "there", "friend" triggers no
\* eviction (tail stays 0) and a bridge polling from cursor 0 retrieves all three
\* frames, in that order, once it has caught up.
C16_BasicFifo ==
    /\ StoredTail = 0
    /\ \A i \in 1..Len(frames) : frames[i].evicted = 0
    /\ (Len(frames) = Len(ScenarioWords) /\ Quiescent /\ CaughtUp) =>
          EventWords = ScenarioWords

\* C17: starting from the empty region, after _write_word calls whose padded
\* sizes total CAPACITY + k bytes with k > 0, tail has advanced from 0 by exactly
\* k bytes (mod CAPACITY).
C17_TailAdvancesByOverflow ==
    (WritersIdle /\ TotalPadded > CAPACITY) =>
        StoredTail = (TotalPadded - CAPACITY) % CAPACITY

\* C18: a process that finds an existing region whose size differs from the size
\* it expects fails with a size-mismatch error: it never gets past its start-up,
\* so never reads or writes the region with a capacity derived from its own
\* SHM_SIZE.
C18_SizeMismatchRejected ==
    (SegLen(mem) > 0 /\ SegLen(mem) # SHM_SIZE) => wpc[MainServer] = "start"

\* C19: a region main_server created (in SpecSetup: a segment of SHM_SIZE bytes)
\* has head = 0 and tail = 0 when created and carries the version byte
\* VERSION_BYTE in every state from its creation on, also before the first frame
\* is written.
C19_VersionFromCreation ==
    SegLen(mem) = SHM_SIZE =>
        /\ mem[8] = VERSION_BYTE
        /\ frames = << >> /\ WritersIdle => StoredHead = 0 /\ StoredTail = 0

\* C20: a _write_word call for a word whose padded frame is longer than CAPACITY,
\* or whose entry_len or word_len does not fit 16 bits, fails with an error and
\* leaves head, tail and every payload byte as they were when it took the lock.
C20_OversizedRejected ==
    \A w \in Writers :
        (/\ InCritical(w)
         /\ \/ wloc[w].padded > CAPACITY
            \/ EntryLen(Len(Utf8Encode(wloc[w].word))) > U16Max) =>
            /\ \A i \in DOMAIN mem \ {8} : mem[i] = wloc[w].pre[i]
            /\ wpc[w] = "release" => wloc[w].outcome \in {"ValueError", "struct.error"}

\* C21: when the bytes of a poll cannot be decoded, the bridge logs a warning,
\* builds no message, moves its cursor to the head it observed (so the bytes are
\* not read again) and goes back to the sleep before its next poll: the failure
\* never ends read_shared_memory_loop.
C21_DecodeFailureSkipped ==
    [][ (rpc = "decode" /\ rpc' # "decode" /\ ~Utf8Decode(rloc.data).ok)
            => /\ log' = Append(log, DecodeWarning)
               /\ events' = events
               /\ last_tail' = rloc.head
               /\ rpc' = "sleep"
               /\ mem' = mem ]_vars

\* Two polls ended, the first with bytes that are not UTF-8 and a warning in the
\* log, the second started at the head the first one observed.
C21_Witness ==
    /\ Len(polls) >= 2
    /\ ~Utf8Decode(polls[1]).ok
    /\ Len(log) >= 1
    /\ log[1] = DecodeWarning
    /\ rpc = "sleep"

\* C22: a failure to take the cross-process lock in _write_word is fatal: the
\* region is never written without the lock, and after the failure the process
\* is on its way out: it does not log the error and go on to another transcript.
C22_LockFailureFatal ==
    /\ \A w \in Writers :
          wpc[w] \in {"header", "copy", "wrap", "persist", "release"} => lock = w
    /\ lockerrors > 0 => /\ wpc[MainServer] \in {"raised", "exited"}
                         /\ log = << >>

\* C23: every CircularAudioBuffer call of the two servers is made by a thread
\* that holds buffer_lock, and the audio thread and the processing loop are
\* never inside their buffer calls at the same time.
C23_BufferCallsLocked ==
    [][ /\ cpc = "write" => buffer_lock = AudioThread
        /\ ppc = "check" => buffer_lock = ProcessingLoop
        /\ ~(cpc = "write" /\ ppc = "check")
        /\ call' # call =>
              \/ cpc = "write" /\ buffer_lock = AudioThread /\ cpc' = "unlock"
              \/ ppc = "check" /\ buffer_lock = ProcessingLoop /\ ppc' = "unlock" ]_vars

\* The processing loop has read a chunk under the lock while the audio thread
\* waits for the lock with its next block.
C23_Witness ==
    /\ ppc = "unlock"
    /\ buffer_lock = ProcessingLoop
    /\ cpc = "lock"
    /\ call.op \in {"read", "read_with_overlap"}
    /\ Len(call.ret) = chunk_samples

\* C24: a started audio_callback always returns: the processing loop does not
\* hold buffer_lock during the inference or the sends, and a full queue drops
\* the trigger instead of making the callback wait.
C24_CallbackCompletes ==
    /\ [](ppc = "infer" => buffer_lock # ProcessingLoop)
    /\ [](cpc = "trigger" => buffer_lock # AudioThread)
    /\ (cpc # "idle") ~> (cpc = "idle")

\* A callback that took the lock and wrote its block is at its put_nowait with
\* the queue full, while the processing loop is in the middle of an inference.
C24_Witness ==
    /\ cpc = "trigger"
    /\ queue = QueueMaxsize
    /\ length >= chunk_samples
    /\ call.op = "write"
    /\ ppc = "infer"

\* _write_word, line 291: the unread length the writer derives from the stored
\* cursors, CAPACITY minus its space_left.
DerivedUnread == CAPACITY - SpaceLeft(StoredHead, StoredTail)

\* The bytes of the frames stored before frame i.
PaddedBefore(i) == Len(Flatten([j \in 1..(i - 1) |-> frames[j].entry]))

\* C25: the shared byte ring is EMPTY, PARTIAL or FULL, and FULL shows in its
\* own state: between calls, once the frames written fill the capacity or more,
\* the unread length derived from head and tail equals CAPACITY, and a frame
\* written into the full ring evicted old bytes.
C25_FullDistinguishable ==
    /\ WritersIdle => /\ DerivedUnread \in 0..CAPACITY
                      /\ TotalPadded = 0 => DerivedUnread = 0
                      /\ TotalPadded >= CAPACITY => DerivedUnread = CAPACITY
    /\ \A i \in 1..Len(frames) : PaddedBefore(i) >= CAPACITY => frames[i].evicted > 0

\* The cursors stored in the segment a call found when it took the lock.
HeadBefore(w) == UnpackU32(wloc[w].pre, 0)
TailBefore(w) == UnpackU32(wloc[w].pre, 4)

\* C26: in _write_word, with space_left = CAPACITY - ((head - tail) mod CAPACITY):
\* if padded > space_left the tail becomes (tail + padded - space_left) mod
\* CAPACITY and is stored; if padded <= space_left the tail is left unchanged.
C26_EvictionArithmetic ==
    \A w \in Writers :
        wpc[w] \in {"copy", "wrap", "persist"} =>
            LET head       == HeadBefore(w)
                tail       == TailBefore(w)
                padded     == Len(wloc[w].entry)
                space_left == CAPACITY - ((head - tail) % CAPACITY)
            IN  IF padded > space_left
                THEN StoredTail = (tail + padded - space_left) % CAPACITY
                ELSE StoredTail = tail

\* A call that stored a tail other than the one it found, and one that did not
\* have to.
C26_Witness ==
    /\ wpc[MainServer] = "persist"
    /\ StoredTail # TailBefore(MainServer)
    /\ \E i \in 1..Len(frames) : frames[i].evicted = 0

\* The payload byte at ring offset k of segment m, as _write_word addresses it.
PayloadByte(m, k) == m[DATA_OFFSET + k]

\* The ring offsets of a frame of p bytes stored at h.
FrameOffsets(h, p) == { (h + i) % CAPACITY : i \in 0..(p - 1) }

\* C27: after _write_word has stored a frame of padded length p <= CAPACITY at
\* head h, payload byte (h + i) mod CAPACITY equals byte i of the encoded,
\* zero-padded frame for every i < p, across the end of the payload too; the
\* other payload bytes are as the call found them; head = (h + p) mod CAPACITY.
C27_FrameStored ==
    \A w \in Writers :
        (wpc[w] = "release" /\ wloc[w].outcome = "returned") =>
            LET frame == Entry(wloc[w].word, wloc[w].timestamp, wloc[w].confidence)
                p     == Len(frame)
                h     == HeadBefore(w)
            IN  p <= CAPACITY =>
                    /\ \A i \in 0..(p - 1) :
                          PayloadByte(mem, (h + i) % CAPACITY) = frame[i + 1]
                    /\ \A k \in 0..(CAPACITY - 1) :
                          k \notin FrameOffsets(h, p) =>
                              PayloadByte(mem, k) = PayloadByte(wloc[w].pre, k)
                    /\ StoredHead = (h + p) % CAPACITY

\* A call returned after storing a frame across the end of the payload.
C27_Witness ==
    /\ wpc[MainServer] = "release"
    /\ wloc[MainServer].outcome = "returned"
    /\ HeadBefore(MainServer) + Len(wloc[MainServer].entry) > CAPACITY
    /\ StoredHead < HeadBefore(MainServer)

\* The frame of the call of w is in the payload, whole, where the call found head.
FrameCopied(w) ==
    \A i \in 0..(Len(wloc[w].entry) - 1) :
        PayloadByte(mem, (wloc[w].head + i) % CAPACITY) = wloc[w].entry[i + 1]

\* The payload bytes of a segment.
Payload(m) == [k \in 0..(CAPACITY - 1) |-> PayloadByte(m, k)]

\* C28: one _write_word call takes the lock, stores the tail (only when it
\* evicts), copies the whole frame, stores the head and releases the lock, in
\* that order: the stored head changes only once the frame it covers is copied
\* completely, and every store is made with the lock held.
C28_WriteOrder ==
    [][ /\ StoredTail' # StoredTail =>
              \E w \in Writers : /\ wpc[w] = "header" /\ lock = w /\ lock' = w
                                  /\ wloc'[w].evicted > 0
                                  /\ StoredHead' = StoredHead
                                  /\ Payload(mem') = Payload(mem)
        /\ Payload(mem') # Payload(mem) =>
              \E w \in Writers : /\ wpc[w] \in {"copy", "wrap"} /\ lock = w /\ lock' = w
                                  /\ StoredHead' = StoredHead
                                  /\ StoredTail' = StoredTail
        /\ StoredHead' # StoredHead =>
              \E w \in Writers : /\ wpc[w] = "persist" /\ lock = w /\ lock' = w
                                  /\ FrameCopied(w)
                                  /\ mem' = PackIntoU32(mem, 0, StoredHead')
        /\ (lock # NoHolder /\ lock' = NoHolder) =>
              /\ wpc[lock] = "release"
              /\ mem' = mem ]_vars

\* A call that stored the tail and copied its frame in two parts is about to
\* store the head.
C28_Witness ==
    /\ wpc[MainServer] = "persist"
    /\ lock = MainServer
    /\ wloc[MainServer].evicted > 0
    /\ StoredTail # TailBefore(MainServer)
    /\ wloc[MainServer].head + wloc[MainServer].padded > CAPACITY
    /\ StoredHead = wloc[MainServer].head
    /\ FrameCopied(MainServer)

\* A step of the bridge: its attach or a step of one of its polls.
BridgeStepTaken == rpc' # rpc \/ rloc' # rloc \/ polls' # polls \/ last_tail' # last_tail

\* A step of main_server w.
WriterStepTaken(w) == wpc'[w] # wpc[w] \/ wloc'[w] # wloc[w]

\* C29: only the writer modifies the shared region. Attaching to an existing
\* region, in main_server or in the bridge, and every step of a poll leave
\* head, tail, version and payload as they are; the stored tail changes only in
\* the eviction of a _write_word call; and last_tail changes only in steps of
\* the bridge, never in a step of main_server.
C29_OnlyWriterModifies ==
    [][ /\ BridgeStepTaken => mem' = mem
        /\ \A w \in Writers :
              (wpc[w] = "start" /\ WriterStepTaken(w) /\ SegLen(mem) > 0) => mem' = mem
        /\ (SegLen(mem) > 0 /\ mem' # mem) =>
              \E w \in Writers : /\ wpc[w] \in {"header", "copy", "wrap", "persist"}
                                  /\ WriterStepTaken(w)
        /\ (SegLen(mem) > 0 /\ StoredTail' # StoredTail) =>
              \E w \in Writers : wpc[w] = "header" /\ wloc'[w].evicted > 0
        /\ last_tail' # last_tail =>
              /\ rpc = "decode"
              /\ \A w \in Writers : ~WriterStepTaken(w) ]_vars

\* main_server and the bridge have attached to a region that existed, frames
\* were stored, one of them with an eviction, and the bridge has finished a poll
\* that moved its cursor.
C29_Witness ==
    /\ SegLen(mem) \in ForeignSizes
    /\ wpc[MainServer] = "idle"
    /\ \E i \in 1..Len(frames) : frames[i].evicted > 0
    /\ polls # << >>
    /\ last_tail # 0
    /\ rpc = "sleep"
    /\ StoredTail # 0

\* The payload bytes at the writer's ring offsets from .. from + n - 1.
WriterRange(m, from, n) == [i \in 1..n |-> PayloadByte(m, (from + i - 1) % CAPACITY)]

\* C30: a poll that observed head # last_tail computes available = (head -
\* last_tail) mod CAPACITY with the writer's capacity and payload offset, returns
\* exactly the payload bytes at the writer's ring offsets last_tail .. head - 1,
\* and sets its cursor to the head it observed.
C30_PollReturnsWriterBytes ==
    [][ (rpc = "decode" /\ rpc' = "sleep") =>
            LET available == (rloc.head - last_tail) % CAPACITY
            IN  /\ rloc.available = available
                /\ polls' = Append(polls, WriterRange(mem, last_tail, available))
                /\ last_tail' = rloc.head ]_vars

\* The stored frames whose bytes cover ring offset k.
Covering(k) ==
    { i \in 1..Len(frames) : k \in FrameOffsets(frames[i].at, Len(frames[i].entry)) }

\* Ring offset k lies inside the frame that was last written over it, past that
\* frame's first byte.
MidFrame(k) ==
    /\ Covering(k) # {}
    /\ LET last == CHOOSE i \in Covering(k) : \A j \in Covering(k) : j <= i
       IN  frames[last].at # k

\* C31: the bridge's cursor last_tail is always at the start of a frame of the
\* ring or at head, never in the middle of a frame, so no copy begins inside a
\* frame - on the first poll after attaching to a ring that has wrapped or
\* evicted as well.
C31_CursorOnFrameBoundary ==
    rpc \in {"sleep", "copy", "wrap", "decode"} => ~MidFrame(last_tail)

\* struct.unpack_from("<H", frame, at): the uint16 field at byte `at` of a frame.
FrameU16(frame, at) == frame[at + 1] + 256 * frame[at + 2]

\* The frame has the layout of a word of word_len bytes: entry_len = 16 +
\* word_len in its first field, a length that is the smallest multiple of 8 not
\* below entry_len, zeros after the first entry_len bytes.
WellFramed(frame, data) ==
    LET word_len  == Len(data)
        entry_len == 16 + word_len
        p         == Len(frame)
    IN  /\ FrameU16(frame, 0) = entry_len
        /\ FrameU16(frame, 14) = word_len
        /\ SeqSlice(frame, 16, entry_len) = data
        /\ p % 8 = 0
        /\ entry_len <= p
        /\ p < entry_len + 8
        /\ \A i \in (entry_len + 1)..p : frame[i] = 0

\* C32: the frame _write_word builds for a word has entry_len = 16 + word_len
\* (2 + 8 + 4 + 2 header bytes and the word's UTF-8 bytes), its padded length is
\* the smallest multiple of 8 that is >= entry_len, the stored frame is exactly
\* that long, and every byte after the first entry_len is zero.
C32_FrameLayout ==
    /\ \A w \in Writers :
          wpc[w] \in {"copy", "wrap", "persist"} =>
              /\ WellFramed(wloc[w].entry, Utf8Encode(wloc[w].word))
              /\ wloc[w].padded = Len(wloc[w].entry)
    /\ \A i \in 1..Len(frames) :
          /\ WellFramed(frames[i].entry, Utf8Encode(frames[i].word))
          /\ WriterRange(mem, frames[i].at, Len(frames[i].entry)) = frames[i].entry
                \/ i < Len(frames) \/ wpc[frames[i].writer] # "release"

\* Stored: a frame that needs no padding (an 8-byte word) and the frame of a
\* word with a two-byte character.
C32_Witness ==
    /\ \E i \in 1..Len(frames) :
          frames[i].word = WordRemember /\ Len(frames[i].entry) = 24
    /\ \E i \in 1..Len(frames) :
          frames[i].word = WordNe /\ Len(frames[i].entry) = 24
                                 /\ FrameU16(frames[i].entry, 14) = 3

\* The bytes the evictions of the stored frames dropped.
TotalEvicted == Len(Flatten([i \in 1..Len(frames) |-> Zeros(frames[i].evicted)]))

\* C33: the polling loop never terminates, and by polling alone the bridge's
\* cursor comes to equal head with every written byte range that was not
\* evicted picked up by a poll: whenever the writer is idle and the bridge rests
\* with last_tail = head, its polls have copied at least the bytes written
\* less the bytes evicted.
C33_ReaderCatchesUp ==
    /\ rpc \in {"sleep", "copy", "wrap", "decode"}
    /\ (Quiescent /\ last_tail = StoredHead) =>
           Len(Flatten(polls)) >= TotalPadded - TotalEvicted

\* C35: once _write_word has taken the file lock, it has released it when it
\* returns or raises: a process that is not between line 286 and the end of the
\* finally clause does not hold the lock.
C35_LockReleasedOnExit ==
    \A w \in Writers : ~InCritical(w) => lock # w

\* Every call has ended, one of them with a ValueError from the copy (it stored
\* no frame and no head), and the lock is free.
C35_Witness ==
    /\ WritersIdle
    /\ lock = NoHolder
    /\ nwrites > Len(frames)
    /\ frames # << >>

\* C36: a poll iteration that started sending the words decoded from
\* [last_tail, head) ends with last_tail set to that head, so that no byte range
\* of the ring is broadcast twice, whatever handle_client does to self.clients
\* while a send is awaited.
C36_CursorFollowsBroadcast ==
    [][(rpc \in Broadcasting /\ rpc' = "sleep") => last_tail' = rloc.head]_vars

\* C37: whenever no write_audio call is running the header's write_pos is the
\* number of samples written, and whenever no read_audio call is running its
\* read_pos is the number of samples read_audio has read out of the buffer.
C37_HeaderCountsSamples ==
    /\ wa.pc = "idle" => mm.write_pos = totals.written
    /\ ra.pc = "idle" => mm.read_pos = totals.read

\* C38: a step that takes is_streaming from True to False leaves no session in
\* its start_streaming loop whose own connection is still open.
C38_StoppedByOwnConnection ==
    [][(is_streaming /\ ~is_streaming')
          => \A ws \in Connections : session'[ws].pc \in Streaming => ~connected'[ws]]_vars

\* C39: at most one audio_processing_loop task is alive and at most one input
\* stream is started, at any time.
C39_OneLoopOneStream ==
    /\ simple.created + simple.running <= 1
    /\ simple.streams <= 1

\* C40: a write of audio_callback increments buffer_overflow_count exactly when
\* the block it writes is longer than the free space of the audio buffer.
C40_OverflowCounted ==
    [][(server = Streamer /\ cpc = "write" /\ cpc' = "unlock")
          => ((buffer_overflow_count' = buffer_overflow_count + 1)
                 <=> (nsamples' - nsamples > size - length))]_vars

NextBuf == BufWrite \/ BufRead \/ BufReadWithOverlap

SpecBuf == Init /\ [][NextBuf]_vars


(***************************************************************************)
(* Calls that break the contract of read_with_overlap.                     *)
(***************************************************************************)
\* Number of contract-breaking calls made in one behaviour.
MaxMisuse == 1

BufReadWithOverlapMisuse ==
    \E chunk_size \in 0..MaxArg : \E overlap \in chunk_size..MaxArg :
        /\ misuses < MaxMisuse
        /\ misuses' = misuses + 1
        /\ ReadWithOverlap(chunk_size, overlap)
        /\ UNCHANGED << ringvars, servervars, streamvars >>

NextBufMisuse == BufWrite \/ BufRead \/ BufReadWithOverlap \/ BufReadWithOverlapMisuse

SpecBufMisuse == Init /\ [][NextBufMisuse]_vars

(***************************************************************************)
(* Properties of CircularAudioBuffer                                       *)
(***************************************************************************)
\* What read(length) would return: the ring read from read_ptr, in order.
RingContents == [i \in 1..length |-> buffer[(read_ptr + i - 1) % size]]

\* Every sample ever written, in the order written.
Written == [i \in 1..nsamples |-> i]

\* C4: with 0 <= overlap < chunk_size in every read_with_overlap call,
\* 0 <= length <= size, 0 <= read_ptr < size and 0 <= write_ptr < size always.
C4_PointerBounds ==
    /\ 0 <= length /\ length <= size
    /\ 0 <= read_ptr /\ read_ptr < size
    /\ 0 <= write_ptr /\ write_ptr < size

\* A write has saturated length and a later overlapping read has wrapped read_ptr.
C4_Witness ==
    /\ call.op = "read_with_overlap"
    /\ call.ret # << >>
    /\ call.pre.length = size
    /\ read_ptr < call.pre.read_ptr
    /\ nsamples > size

\* C5: read(n) with n > 0 and length > 0 returns the k = min(n, length) oldest
\* unread samples in the order written, length drops by k and read_ptr advances
\* by k modulo size.
C5_ReadFifo ==
    (call.op = "read" /\ call.n > 0 /\ call.pre.length > 0) =>
        LET k == Min(call.n, call.pre.length)
        IN  /\ call.ret = FirstN(call.pre.unread, k)
            /\ length = call.pre.length - k
            /\ read_ptr = (call.pre.read_ptr + k) % size

\* C6: after write(samples) with len(samples) > size, in any state, length = size
\* and reading size samples gives the last `size` samples of the batch in order.
C6_OversizedWrite ==
    (call.op = "write" /\ call.n > size) =>
        /\ length = size
        /\ RingContents = LastN(Written, size)

\* C7: a write of n <= size samples that exceeds the free space leaves
\* read_ptr = write_ptr, and the ring then reads as the most recent `size`
\* samples ever written, oldest first.
C7_OverflowMovesReadPtr ==
    (call.op = "write" /\ call.n <= size /\ call.pre.length + call.n > size) =>
        /\ length = size
        /\ read_ptr = write_ptr
        /\ RingContents = LastN(Written, size)

\* C8: read_with_overlap(chunk_size, overlap) with 0 <= overlap < chunk_size <= length
\* returns the samples at ring positions read_ptr .. read_ptr + chunk_size - 1
\* (mod size); read_ptr advances and length drops by exactly chunk_size - overlap;
\* write_ptr and the stored samples stay as they were.
C8_ReadWithOverlapEffect ==
    (/\ call.op = "read_with_overlap"
     /\ 0 <= call.overlap /\ call.overlap < call.chunk_size
     /\ call.chunk_size <= call.pre.length) =>
        /\ call.ret = [i \in 1..call.chunk_size |->
                          call.pre.buffer[(call.pre.read_ptr + i - 1) % size]]
        /\ read_ptr = (call.pre.read_ptr + (call.chunk_size - call.overlap)) % size
        /\ length = call.pre.length - (call.chunk_size - call.overlap)
        /\ write_ptr = call.pre.write_ptr
        /\ buffer = call.pre.buffer

\* An overlapping read whose chunk straddles the end of the array.
C8_Witness ==
    /\ call.op = "read_with_overlap"
    /\ call.overlap > 0
    /\ call.chunk_size <= call.pre.length
    /\ call.pre.read_ptr + call.chunk_size > size

\* C9: of two consecutive successful read_with_overlap(chunk_size, overlap) calls
\* with 0 < overlap < chunk_size, separated only by writes that fit the free space
\* (and so discard nothing that is unread), the second begins with the last
\* `overlap` samples of the first.
C9_OverlapCarried ==
    (/\ call.op = "read_with_overlap"
     /\ call.ret # << >>
     /\ call.pre.retained.valid
     /\ call.pre.retained.chunk_size = call.chunk_size
     /\ call.pre.retained.overlap = call.overlap) =>
        FirstN(call.ret, call.overlap)
            = LastN(call.pre.retained.data, call.overlap)

\* The same with "does not discard" read as: stores to no ring position that holds
\* a retained sample.
C9_OverlapCarriedIfUntouched ==
    (/\ call.op = "read_with_overlap"
     /\ call.ret # << >>
     /\ call.pre.retained.intact
     /\ call.pre.retained.chunk_size = call.chunk_size
     /\ call.pre.retained.overlap = call.overlap) =>
        FirstN(call.ret, call.overlap)
            = LastN(call.pre.retained.data, call.overlap)

\* C10: read_with_overlap with overlap >= chunk_size is rejected: no chunk is
\* returned and read_ptr, write_ptr and length are left as they were.
C10_OverlapMisuseRejected ==
    (call.op = "read_with_overlap" /\ call.overlap >= call.chunk_size) =>
        /\ call.ret = << >>
        /\ read_ptr = call.pre.read_ptr
        /\ write_ptr = call.pre.write_ptr
        /\ length = call.pre.length

\* C34: in every state reached by write, read and read_with_overlap (with
\* 0 <= overlap < chunk_size), (read_ptr + length) mod size = write_ptr: the
\* unread region ends exactly at the write pointer.
C34_UnreadEndsAtWritePtr == (read_ptr + length) % size = write_ptr

=============================================================================
